---- MODULE Spec2Model ----
(***************************************************************************)
(* Clip timeline, playback controller and edit resolver of the highlight   *)
(* copilot (src/App.tsx, src/services/geminiService.ts).                   *)
(*                                                                         *)
(* All times are in tenths of a second, so that the constants 0.5 s and    *)
(* 0.1 s of the source are integers: 15 s is 150, 0.5 s is 5.              *)
(***************************************************************************)
EXTENDS Integers, Sequences, FiniteSets, TLC

(***************************************************************************)
(* JavaScript values that can stand where the code expects a number.       *)
(*   num   a finite number (v, in tenths of a second)                      *)
(*   nan   NaN            inf  +Infinity        ninf  -Infinity            *)
(*   undef a missing field (undefined)          null  JSON null            *)
(*   str   a non-numeric string                                            *)
(***************************************************************************)
Num(n) == [k |-> "num", v |-> n]
NaN == [k |-> "nan", v |-> 0]
PosInf == [k |-> "inf", v |-> 0]
NegInf == [k |-> "ninf", v |-> 0]
Undef == [k |-> "undef", v |-> 0]
Null == [k |-> "null", v |-> 0]
Str == [k |-> "str", v |-> 0]

\* Number(x)
ToNumber(x) ==
  CASE x.k \in {"num", "nan", "inf", "ninf"} -> x
    [] x.k = "null" -> Num(0)
    [] OTHER -> NaN

\* Number.isFinite(x): no coercion, only finite numbers pass
IsFinite(x) == x.k = "num"

\* typeof x === 'number'
TypeofNumber(x) == x.k \in {"num", "nan", "inf", "ninf"}

\* a < b on JS values (operands coerced with Number, NaN compares false)
Lt(a, b) ==
  LET x == ToNumber(a)
      y == ToNumber(b)
  IN  /\ x.k # "nan"
      /\ y.k # "nan"
      /\ \/ x.k = "num" /\ y.k = "num" /\ x.v < y.v
         \/ x.k = "ninf" /\ y.k # "ninf"
         \/ x.k = "num" /\ y.k = "inf"

\* a <= b on JS values
Le(a, b) ==
  LET x == ToNumber(a)
      y == ToNumber(b)
  IN  /\ x.k # "nan"
      /\ y.k # "nan"
      /\ \/ Lt(a, b)
         \/ x.k = y.k /\ x.v = y.v

Gt(a, b) == Lt(b, a)
Ge(a, b) == Le(b, a)

\* a + n for a number a and a finite n
Add(a, n) == IF a.k = "num" THEN Num(a.v + n) ELSE a

\* a - b for numbers (only used on finite operands by the code modelled here)
Sub(a, b) ==
  CASE a.k = "num" /\ b.k = "num" -> Num(a.v - b.v)
    [] a.k = "nan" \/ b.k = "nan" -> NaN
    [] a.k = "num" -> IF b.k = "inf" THEN NegInf ELSE PosInf
    [] b.k = "num" -> a
    [] a.k = b.k -> NaN
    [] OTHER -> a

\* a === n for a finite literal n
StrictEq(a, n) == a.k = "num" /\ a.v = n

(***************************************************************************)
(* Clips.  A clip is modelled by its id and its two timestamps; NoId is a  *)
(* missing (undefined / empty) id, which the code treats as falsy.         *)
(***************************************************************************)
NoId == ""

DEFAULT_CLIP_LEN == 150
MAX_CLIP_LEN == 300

mkClip(id, s, e) == [id |-> id, startTime |-> s, endTime |-> e]

\* sanitizeClip without its repair of the start and without the 30 s cap
sanitizeClipNoStartFix(clip, freshId) ==
  LET start == ToNumber(clip.startTime)
      end0 == ToNumber(clip.endTime)
      end1 == IF ~IsFinite(end0) \/ Le(end0, start)
              THEN Add(start, DEFAULT_CLIP_LEN) ELSE end0
  IN  mkClip(IF clip.id # NoId THEN clip.id ELSE freshId, start, end1)

\* sanitizeClip: freshId stands for the generated `gen-<now>-<random>` id
sanitizeClip(clip, freshId) ==
  LET start0 == ToNumber(clip.startTime)
      end0 == ToNumber(clip.endTime)
      start == IF ~IsFinite(start0) \/ Lt(start0, Num(0)) THEN Num(0) ELSE start0
      end1 == IF ~IsFinite(end0) \/ Le(end0, start)
              THEN Add(start, DEFAULT_CLIP_LEN) ELSE end0
      end == IF Gt(Sub(end1, start), Num(MAX_CLIP_LEN))
             THEN Add(start, MAX_CLIP_LEN) ELSE end1
  IN  mkClip(IF clip.id # NoId THEN clip.id ELSE freshId, start, end)

\* endTime > startTime >= 0 with both finite
WellFormed(c) ==
  /\ IsFinite(c.startTime)
  /\ IsFinite(c.endTime)
  /\ c.startTime.v >= 0
  /\ c.endTime.v > c.startTime.v

(***************************************************************************)
(* Bounds of the model.                                                    *)
(***************************************************************************)
\* copilot commands sent in one session
MaxCommands == 2
\* analyses started in one session
MaxAnalyses == 1
\* clips in one oracle {clips: [...]} payload / one analysis result
MaxBatch == 2
\* entries of an oracle keepSegments list
MaxSegs == 2
\* processAndDownload runs allowed to be in flight together
MaxExports == 2
\* generated clip ids in use at one time
MaxGen == 8

\* duration of the loaded source video (30 s)
Duration == 300
\* positions the play head is observed at: everywhere a segment or clip of the
\* oracle answers below starts or ends, in between, and half a second before the
\* end of the source
TimeSamples == {0, 50, 70, 100, 150, 250, Duration - 5, Duration}
CoarseTimes == {0, 100, 250}

VARIABLES
  file,              \* a video file is loaded (file, videoUrl; the <video> is mounted)
  analysisData,      \* [isNull, clips]: the clip library
  reel,              \* sequence of clip snapshots
  playerMode,        \* "FULL" | "SINGLE" | "REEL"
  reelCurrentIndex,  \* 0-based cursor into reel
  activeClipId,      \* id of the selected clip, NoId when none
  playedClip,        \* the clip playClip was last called with (NoClip before)
  virtualEdit,       \* [isNull, isActive, keepSegments, filterStyle]
  clipEdits,         \* clip id -> [filterStyle, subtitles, overlay], "" = unset
  chatHistory,       \* sequence of message kinds
  isProcessingChat,
  chatCall,          \* the outstanding handleSendMessage call and what it captured
  analyzeCalls,      \* handleAnalyze calls awaiting the analysis oracle
  videoTime,         \* videoRef.current.currentTime
  videoPaused,       \* videoRef.current.paused
  isTransitioning,   \* the black transition overlay is shown
  isExportingSmart,
  downloadingClipId, \* NoId when null
  exports,           \* processAndDownload runs in flight, by the handler that started them
  lastOp,            \* the handler that ran last, and its input
  lastSeeks,         \* the positions that handler assigned to currentTime, in order
  sanIn,             \* sanitizeClip harness: the input record
  sanOut,            \* sanitizeClip harness: the result, once computed
  smartIn,           \* performSmartEdit harness: the transcript
  smartOut,          \* performSmartEdit harness: the keep ranges, once computed
  upload,            \* uploadVideo: [pc, attempts, state, outcome] of the call
  appState,          \* "IDLE" | "UPLOADING" | "ANALYZING" | "READY" | "ERROR"
  fileUri            \* the file has been uploaded to the oracle (fileUri is not null)

dataVars == <<analysisData, reel, virtualEdit, clipEdits>>
modeVars == <<playerMode, reelCurrentIndex, activeClipId, playedClip>>
videoVars == <<videoTime, videoPaused, isTransitioning>>
chatVars == <<chatHistory, isProcessingChat, chatCall>>
exportVars == <<isExportingSmart, downloadingClipId, exports>>
harnessVars == <<sanIn, sanOut, smartIn, smartOut, upload>>
appVars == <<appState, fileUri>>
vars == <<file, dataVars, modeVars, videoVars, chatVars, analyzeCalls, exportVars,
          lastOp, lastSeeks, harnessVars, appVars>>

NullData == [isNull |-> TRUE, clips |-> <<>>]
Data(cs) == [isNull |-> FALSE, clips |-> cs]
\* analysisData?.clips || []
ClipsOf(d) == IF d.isNull THEN <<>> ELSE d.clips

NullEdit ==
  [isNull |-> TRUE, isActive |-> FALSE, keepSegments |-> <<>>, filterStyle |-> "undefined"]
\* a field that is not there (undefined or null), as opposed to the empty string ""
Absent == "undefined"
NoClipEdit == [filterStyle |-> Absent, subtitles |-> Absent, overlay |-> Absent]
IdleCall ==
  [active |-> FALSE, activeClipId |-> NoId, analysisData |-> NullData,
   appState |-> "IDLE", uploading |-> FALSE]
NoOp == [op |-> "none"]
NoClip == mkClip(NoId, Undef, Undef)

Range(s) == {s[i] : i \in 1..Len(s)}
SeqMap(F(_), s) == [i \in 1..Len(s) |-> F(s[i])]
IdsOf(cs) == {cs[i].id : i \in 1..Len(cs)}

\* the ids generated by `gen-${Date.now()}-${Math.random()}` / `search-${Date.now()}`
GenIds == [i \in 1..MaxGen |-> "gen-" \o ToString(i)]

UsedIds ==
  IdsOf(ClipsOf(analysisData)) \cup IdsOf(reel) \cup IdsOf(ClipsOf(chatCall.analysisData))
    \cup {activeClipId, chatCall.activeClipId, downloadingClipId}
    \cup {i \in DOMAIN clipEdits : clipEdits[i] # NoClipEdit}

\* the n-th generated id that occurs nowhere in the state: a generated id is new
FreeIds == SelectSeq(GenIds, LAMBDA g : g \notin UsedIds)
FreshId(n) == IF n <= Len(FreeIds) THEN FreeIds[n] ELSE "gen-none"

(***************************************************************************)
(* The <video> element behind videoRef: assigning currentTime seeks, and   *)
(* the element keeps the position inside [0, duration].                    *)
(***************************************************************************)
Clamp(n) == IF n < 0 THEN 0 ELSE IF n > Duration THEN Duration ELSE n

\* a session: the state after construction, or one with a file loaded that holds
\* the given library, reel, selected clip and clip edits
\* uploadVideo has not been called.
NoUpload == [pc |-> "idle", attempts |-> 0, state |-> "NONE", outcome |-> "none"]

SessionWith(f, d, rl, id, edits, chat) ==
  /\ file = f
  /\ analysisData = d
  /\ reel = rl
  /\ playerMode = "FULL"
  /\ reelCurrentIndex = 0
  /\ activeClipId = id
  /\ playedClip = NoClip
  /\ virtualEdit = NullEdit
  /\ clipEdits = edits
  /\ chatHistory = chat
  /\ isProcessingChat = FALSE
  /\ chatCall = IdleCall
  /\ analyzeCalls = 0
  /\ videoTime = 0
  /\ videoPaused = TRUE
  /\ isTransitioning = FALSE
  /\ isExportingSmart = FALSE
  /\ downloadingClipId = NoId
  /\ exports = <<>>
  /\ lastOp = NoOp
  /\ lastSeeks = <<>>
  /\ sanIn = NoClip
  /\ sanOut = NoClip
  /\ smartIn = <<>>
  /\ smartOut = <<>>
  /\ upload = NoUpload
  /\ appState = IF f THEN "READY" ELSE "IDLE"
  /\ fileUri = FALSE

NoClipEdits == [i \in {} |-> NoClipEdit]

InitSession ==
  /\ file = FALSE
  /\ analysisData = NullData
  /\ reel = <<>>
  /\ playerMode = "FULL"
  /\ reelCurrentIndex = 0
  /\ activeClipId = NoId
  /\ playedClip = NoClip
  /\ virtualEdit = NullEdit
  /\ clipEdits = NoClipEdits
  /\ chatHistory = <<>>
  /\ isProcessingChat = FALSE
  /\ chatCall = IdleCall
  /\ analyzeCalls = 0
  /\ videoTime = 0
  /\ videoPaused = TRUE
  /\ isTransitioning = FALSE
  /\ isExportingSmart = FALSE
  /\ downloadingClipId = NoId
  /\ exports = <<>>
  /\ lastOp = NoOp
  /\ lastSeeks = <<>>
  /\ appState = "IDLE"
  /\ fileUri = FALSE

Init ==
  /\ InitSession
  /\ sanIn = NoClip
  /\ sanOut = NoClip
  /\ smartIn = <<>>
  /\ smartOut = <<>>
  /\ upload = NoUpload

(***************************************************************************)
(* Playback controller.                                                    *)
(***************************************************************************)
\* the start playClip / playReel / the reel advance seek to
SafeStart(clip) ==
  IF ~IsFinite(clip.startTime) \/ clip.startTime.v < 0 THEN 0 ELSE clip.startTime.v

\* start and end as handleTimeUpdate reads them: non-finite becomes 0
TickStart(clip) == IF IsFinite(clip.startTime) THEN clip.startTime.v ELSE 0
TickEnd(clip) == IF IsFinite(clip.endTime) THEN clip.endTime.v ELSE 0

SINGLE_FALLBACK == 100
REEL_FALLBACK == 50
END_MARGIN == 5

\* safeEndTime of the SINGLE branch
SingleSafeEnd(clip) ==
  IF TickEnd(clip) > TickStart(clip) THEN TickEnd(clip) ELSE TickStart(clip) + SINGLE_FALLBACK

\* safeEndTime of the REEL branch
ReelSafeEnd(clip) ==
  IF TickEnd(clip) > TickStart(clip) THEN TickEnd(clip) ELSE TickStart(clip) + REEL_FALLBACK

\* playClip with videoRef.current mounted; the caller leaves the rest unchanged
playClip(clip) ==
  /\ playerMode' = "SINGLE"
  /\ activeClipId' = clip.id
  /\ playedClip' = clip
  /\ videoTime' = Clamp(SafeStart(clip))
  /\ videoPaused' = FALSE
  /\ lastSeeks' = <<SafeStart(clip)>>
  /\ UNCHANGED <<reelCurrentIndex, isTransitioning>>

\* a click on a clip of the library or on an entry of the reel
ClickClip ==
  /\ file
  /\ \E clip \in Range(ClipsOf(analysisData)) \cup Range(reel) :
       /\ playClip(clip)
       /\ lastOp' = [op |-> "playClip"]
  /\ UNCHANGED <<file, dataVars, chatVars, analyzeCalls, exportVars, harnessVars, appVars>>

\* a reel button that is dead while the copilot works
playReelWhenIdle ==
  /\ file
  /\ ~isProcessingChat
  /\ Len(reel) > 0
  /\ playerMode' = "REEL"
  /\ reelCurrentIndex' = 0
  /\ videoTime' = Clamp(SafeStart(reel[1]))
  /\ videoPaused' = FALSE
  /\ virtualEdit' = NullEdit
  /\ lastSeeks' = <<SafeStart(reel[1])>>
  /\ lastOp' = [op |-> "playReel"]
  /\ UNCHANGED <<file, analysisData, reel, clipEdits, activeClipId, playedClip, chatVars,
                 isTransitioning, analyzeCalls, exportVars, harnessVars, appVars>>

playReel ==
  /\ file
  /\ Len(reel) > 0
  /\ playerMode' = "REEL"
  /\ reelCurrentIndex' = 0
  /\ videoTime' = Clamp(SafeStart(reel[1]))
  /\ videoPaused' = FALSE
  /\ virtualEdit' = NullEdit
  /\ lastSeeks' = <<SafeStart(reel[1])>>
  /\ lastOp' = [op |-> "playReel"]
  /\ UNCHANGED <<file, analysisData, reel, clipEdits, activeClipId, playedClip, chatVars,
                 isTransitioning, analyzeCalls, exportVars, harnessVars, appVars>>

\* keepSegments.some(seg => currentTime >= seg.start && currentTime < seg.end)
InValidSegment(segs, t) ==
  \E i \in 1..Len(segs) : Ge(Num(t), segs[i].start) /\ Lt(Num(t), segs[i].end)

\* a find that keeps the last match instead of the first
NextSegmentLast(segs, t) ==
  LET later == {i \in 1..Len(segs) : Gt(segs[i].start, Num(t))}
  IN  IF later = {} THEN 0 ELSE CHOOSE i \in later : \A j \in later : i >= j

\* index of keepSegments.find(seg => seg.start > currentTime), 0 when there is none
NextSegment(segs, t) ==
  LET later == {i \in 1..Len(segs) : Gt(segs[i].start, Num(t))}
  IN  IF later = {} THEN 0 ELSE CHOOSE i \in later : \A j \in later : i <= j

\* safeNextStart
SafeNextStart(seg, t) == IF IsFinite(seg.start) THEN seg.start.v ELSE t

\* the play head moves: playback advances or the user scrubs with the controls
MoveHead(positions) ==
  /\ file
  /\ \E t \in positions : t # videoTime /\ videoTime' = t
  /\ lastOp' = [op |-> "move"]
  /\ lastSeeks' = <<>>
  /\ UNCHANGED <<file, dataVars, modeVars, videoPaused, isTransitioning, chatVars,
                 analyzeCalls, exportVars, harnessVars, appVars>>

\* playback goes on by itself: the play head reaches the next observed position
Advance ==
  /\ file
  /\ ~videoPaused
  /\ videoTime < Duration
  /\ videoTime' = CHOOSE t \in TimeSamples :
                    t > videoTime /\ \A u \in TimeSamples : u > videoTime => t <= u
  /\ lastOp' = [op |-> "advance"]
  /\ lastSeeks' = <<>>
  /\ UNCHANGED <<file, dataVars, modeVars, videoPaused, isTransitioning, chatVars,
                 analyzeCalls, exportVars, harnessVars, appVars>>

\* the timer of triggerTransition fires
TransitionEnds ==
  /\ isTransitioning
  /\ isTransitioning' = FALSE
  /\ lastOp' = [op |-> "transitionEnds"]
  /\ lastSeeks' = <<>>
  /\ UNCHANGED <<file, dataVars, modeVars, videoTime, videoPaused, chatVars, analyzeCalls,
                 exportVars, harnessVars, appVars>>

TickReel ==
  LET cur == reel[reelCurrentIndex + 1]
      nextIndex == reelCurrentIndex + 1
  IN  IF reelCurrentIndex >= Len(reel)
      THEN \* reel[reelCurrentIndex] is undefined: the handler throws
           /\ lastSeeks' = <<>>
           /\ UNCHANGED <<modeVars, videoVars>>
      ELSE IF videoTime >= ReelSafeEnd(cur)
      THEN IF nextIndex < Len(reel)
           THEN /\ reelCurrentIndex' = nextIndex
                /\ videoTime' = Clamp(SafeStart(reel[nextIndex + 1]))
                /\ videoPaused' = FALSE
                /\ isTransitioning' = TRUE
                /\ lastSeeks' = <<SafeStart(reel[nextIndex + 1])>>
                /\ UNCHANGED <<playerMode, activeClipId, playedClip>>
           ELSE /\ videoPaused' = TRUE
                /\ playerMode' = "FULL"
                /\ lastSeeks' = <<>>
                /\ UNCHANGED <<reelCurrentIndex, activeClipId, playedClip, videoTime,
                               isTransitioning>>
      ELSE /\ lastSeeks' = <<>>
           /\ UNCHANGED <<modeVars, videoVars>>

\* analysisData.clips.find(c => c.id === activeClipId): its index, 0 when not found
FindClip(cs, id) ==
  LET hits == {i \in 1..Len(cs) : cs[i].id = id}
  IN  IF hits = {} THEN 0 ELSE CHOOSE i \in hits : \A j \in hits : i <= j

\* a SINGLE branch in which the skip logic of the virtual edit moves the play head
TickSingleSkipping ==
  LET segs == virtualEdit.keepSegments
      next == NextSegment(segs, videoTime)
  IN  IF ~virtualEdit.isNull /\ virtualEdit.isActive /\ Len(segs) > 0
         /\ ~InValidSegment(segs, videoTime) /\ next # 0
      THEN /\ videoTime' = Clamp(SafeNextStart(segs[next], videoTime))
           /\ lastSeeks' = <<SafeNextStart(segs[next], videoTime)>>
           /\ UNCHANGED <<modeVars, videoPaused, isTransitioning>>
      ELSE /\ lastSeeks' = <<>>
           /\ UNCHANGED <<modeVars, videoVars>>

TickSingle ==
  LET cs == ClipsOf(analysisData)
      at == FindClip(cs, activeClipId)
  IN  IF activeClipId # NoId /\ ~analysisData.isNull /\ at # 0
         /\ videoTime >= SingleSafeEnd(cs[at])
      THEN /\ videoTime' = Clamp(TickStart(cs[at]))
           /\ videoPaused' = FALSE
           /\ lastSeeks' = <<TickStart(cs[at])>>
           /\ UNCHANGED <<modeVars, isTransitioning>>
      ELSE /\ lastSeeks' = <<>>
           /\ UNCHANGED <<modeVars, videoVars>>

\* a virtual-edit branch that snaps to the end from anywhere before it
TickFullSnapAlways ==
  LET segs == virtualEdit.keepSegments
      next == NextSegment(segs, videoTime)
  IN  IF ~virtualEdit.isNull /\ virtualEdit.isActive /\ Len(segs) > 0
         /\ ~InValidSegment(segs, videoTime)
      THEN IF next # 0
           THEN /\ videoTime' = Clamp(SafeNextStart(segs[next], videoTime))
                /\ lastSeeks' = <<SafeNextStart(segs[next], videoTime)>>
                /\ UNCHANGED <<modeVars, videoPaused, isTransitioning>>
           ELSE IF videoTime < Duration
           THEN /\ videoPaused' = TRUE
                /\ videoTime' = Duration
                /\ lastSeeks' = <<Duration>>
                /\ UNCHANGED <<modeVars, isTransitioning>>
           ELSE /\ lastSeeks' = <<>>
                /\ UNCHANGED <<modeVars, videoVars>>
      ELSE /\ lastSeeks' = <<>>
           /\ UNCHANGED <<modeVars, videoVars>>

TickFull ==
  LET segs == virtualEdit.keepSegments
      next == NextSegment(segs, videoTime)
  IN  IF ~virtualEdit.isNull /\ virtualEdit.isActive /\ Len(segs) > 0
         /\ ~InValidSegment(segs, videoTime)
      THEN IF next # 0
           THEN /\ videoTime' = Clamp(SafeNextStart(segs[next], videoTime))
                /\ lastSeeks' = <<SafeNextStart(segs[next], videoTime)>>
                /\ UNCHANGED <<modeVars, videoPaused, isTransitioning>>
           ELSE IF videoTime < Duration - END_MARGIN
           THEN /\ videoPaused' = TRUE
                /\ videoTime' = Duration
                /\ lastSeeks' = <<Duration>>
                /\ UNCHANGED <<modeVars, isTransitioning>>
           ELSE /\ lastSeeks' = <<>>
                /\ UNCHANGED <<modeVars, videoVars>>
      ELSE /\ lastSeeks' = <<>>
           /\ UNCHANGED <<modeVars, videoVars>>

\* handleTimeUpdate: one timeupdate event of the <video>
handleTimeUpdate ==
  /\ file
  /\ IF playerMode = "REEL" /\ Len(reel) > 0 THEN TickReel
     ELSE IF playerMode = "SINGLE" THEN TickSingle
     ELSE IF playerMode = "FULL" THEN TickFull
     ELSE /\ lastSeeks' = <<>>
          /\ UNCHANGED <<modeVars, videoVars>>
  /\ lastOp' = [op |-> "tick"]
  /\ UNCHANGED <<file, dataVars, chatVars, analyzeCalls, exportVars, harnessVars, appVars>>

(***************************************************************************)
(* The intent oracle's answer, as parsed from its JSON: CopilotResponse.   *)
(* Absent fields are Undef / NoId / Absent / hasX = FALSE.                 *)
(***************************************************************************)
Resp(intent) ==
  [intent |-> intent, hasData |-> TRUE, all |-> FALSE,
   hasClips |-> FALSE, clips |-> <<>>,
   id |-> NoId, startTime |-> Undef, endTime |-> Undef, index |-> Undef,
   hasKeep |-> FALSE, keepSegments |-> <<>>,
   filterStyle |-> Absent, subtitles |-> Absent, overlay |-> Absent]

Seg(s, e) == [start |-> s, end |-> e]

\* number of clips before position i that carry no id
MissingBefore(raws, i) == Cardinality({j \in 1..(i - 1) : raws[j].id = NoId})

\* clips.map(sanitizeClip)
SanitizeAll(raws) ==
  [i \in 1..Len(raws) |-> sanitizeClip(raws[i], FreshId(MissingBefore(raws, i) + 1))]

\* processUserCommand, from the parsed response on: the `// Sanitize` block
processUserCommand(resp) ==
  IF ~resp.hasData THEN resp
  ELSE LET r1 == IF resp.hasClips
                 THEN [resp EXCEPT !.clips = SanitizeAll(resp.clips)] ELSE resp
           c == sanitizeClip(mkClip(r1.id, r1.startTime, r1.endTime),
                             FreshId(MissingBefore(resp.clips, Len(resp.clips) + 1) + 1))
       IN  IF r1.intent = "SEARCH" /\ r1.startTime # Undef
           THEN [r1 EXCEPT !.id = c.id, !.startTime = c.startTime, !.endTime = c.endTime]
           ELSE r1

(***************************************************************************)
(* Edit resolver: what handleSendMessage does with the response.  Each     *)
(* intent yields an effect: the new data model, the messages appended      *)
(* after the assistant's, the clip handed to playClip, a direct seek, and  *)
(* whether the handler threw.                                              *)
(***************************************************************************)
NoEffect ==
  [analysisData |-> analysisData, reel |-> reel, virtualEdit |-> virtualEdit,
   clipEdits |-> clipEdits, msgs |-> <<>>, play |-> FALSE, clip |-> NoClip,
   seek |-> FALSE, target |-> 0, threw |-> FALSE]

\* a || b on the strings of a ClipEdit
OrElse(a, b) == IF a \notin {Absent, ""} THEN a ELSE b

EditOf(edits, id) == IF id \in DOMAIN edits THEN edits[id] ELSE NoClipEdit

\* setClipEdits(prev => ({...prev, [activeClipId]: {...}}))
MergeClipEdit(edits, id, r) ==
  [i \in DOMAIN edits \cup {id} |->
     IF i = id
     THEN [filterStyle |-> OrElse(r.filterStyle, EditOf(edits, id).filterStyle),
           subtitles |-> OrElse(r.subtitles, EditOf(edits, id).subtitles),
           overlay |-> OrElse(r.overlay, EditOf(edits, id).overlay)]
     ELSE edits[i]]

\* the timestamp rewrite of CLIP_EDIT
RetimeClips(d, id, r) ==
  IF d.isNull THEN d
  ELSE Data([i \in 1..Len(d.clips) |->
         IF d.clips[i].id = id
         THEN [d.clips[i] EXCEPT
                 !.startTime = IF r.startTime # Undef THEN r.startTime ELSE @,
                 !.endTime = IF r.endTime # Undef THEN r.endTime ELSE @]
         ELSE d.clips[i]])

\* the CLIP_EDIT branch as it would be if reel entries were the library's clips
\* themselves and not copies
ResolveClipEditShared(r, call) ==
  LET id == call.activeClipId
      retime == r.startTime # Undef \/ r.endTime # Undef
  IN  [NoEffect EXCEPT
         !.clipEdits = MergeClipEdit(clipEdits, id, r),
         !.analysisData = IF retime THEN RetimeClips(analysisData, id, r) ELSE @,
         !.reel = IF retime THEN RetimeClips(Data(reel), id, r).clips ELSE @]

ResolveClipEdit(r, call) ==
  LET id == call.activeClipId
      e1 == [NoEffect EXCEPT !.clipEdits = MergeClipEdit(clipEdits, id, r)]
      retime == r.startTime # Undef \/ r.endTime # Undef
      e2 == IF retime
            THEN [e1 EXCEPT !.analysisData = RetimeClips(analysisData, id, r)] ELSE e1
      to == ToNumber(r.startTime)
  IN  IF retime /\ r.startTime # Undef /\ file
      THEN IF IsFinite(to)
           THEN [e2 EXCEPT !.seek = TRUE, !.target = to.v]
           ELSE [e2 EXCEPT !.threw = TRUE]
      ELSE e2

\* typeof x === 'number' && Number.isFinite(x) ? x : 0
FiniteOrZero(x) == IF TypeofNumber(x) /\ IsFinite(x) THEN x ELSE Num(0)

\* clipsToAdd of the REEL_ADD branch
ClipsToAdd(r, call) ==
  IF r.all THEN ClipsOf(call.analysisData)
  ELSE IF r.hasClips /\ Len(r.clips) > 0
  THEN [i \in 1..Len(r.clips) |->
          mkClip(r.clips[i].id, FiniteOrZero(r.clips[i].startTime),
                 FiniteOrZero(r.clips[i].endTime))]
  ELSE IF r.startTime # Undef
  THEN <<mkClip(r.id, FiniteOrZero(r.startTime), FiniteOrZero(r.endTime))>>
  ELSE <<>>

\* a library that takes every clip of the batch
AddEvery(d, toAdd) ==
  IF Len(toAdd) = 0 THEN d ELSE Data(toAdd \o ClipsOf(d))

\* the library after REEL_ADD: clips with a new id are put in front
AddUnique(d, toAdd) ==
  LET cur == ClipsOf(d)
      new == SelectSeq(toAdd, LAMBDA nc : nc.id \notin IdsOf(cur))
  IN  IF Len(new) = 0 THEN d ELSE Data(new \o cur)

ResolveReelAdd(r, call) ==
  LET toAdd == ClipsToAdd(r, call)
  IN  IF Len(toAdd) = 0 THEN NoEffect
      ELSE [NoEffect EXCEPT
              !.reel = reel \o toAdd,
              !.analysisData = IF r.all THEN analysisData
                               ELSE AddUnique(analysisData, toAdd),
              !.play = TRUE,
              !.clip = toAdd[1]]

\* a removal that drops the first entry whatever the index in range
RemoveFirst(rl, idx) ==
  IF StrictEq(idx, -1) THEN SubSeq(rl, 1, Len(rl) - 1)
  ELSE IF idx # Undef /\ Ge(idx, Num(0)) /\ Lt(idx, Num(Len(rl)))
  THEN Tail(rl)
  ELSE rl

\* the reel after REEL_REMOVE with index idx
RemoveAt(rl, idx) ==
  IF StrictEq(idx, -1) THEN SubSeq(rl, 1, Len(rl) - 1)
  ELSE IF idx # Undef /\ Ge(idx, Num(0)) /\ Lt(idx, Num(Len(rl)))
  THEN [i \in 1..(Len(rl) - 1) |-> IF i <= idx.v THEN rl[i] ELSE rl[i + 1]]
  ELSE rl

ResolveReelRemove(r) ==
  IF ~r.hasData THEN [NoEffect EXCEPT !.threw = TRUE]
  ELSE [NoEffect EXCEPT !.reel = RemoveAt(reel, r.index)]

DEFAULT_DURATION == 1000

ResolveEdit(r) ==
  LET duration == IF file THEN Duration ELSE DEFAULT_DURATION
      keeps == IF r.hasKeep THEN r.keepSegments ELSE <<Seg(Num(0), Num(duration))>>
  IN  [NoEffect EXCEPT
         !.virtualEdit = [isNull |-> FALSE, isActive |-> TRUE, keepSegments |-> keeps,
                          filterStyle |-> r.filterStyle]]

SENTINEL == -10
SEARCH_FALLBACK == 100

\* the clip the SEARCH branch builds from result.data
SearchClip(r) ==
  LET id == IF r.id = NoId THEN FreshId(1) ELSE r.id
      s == IF TypeofNumber(r.startTime) THEN r.startTime ELSE Num(0)
      e0 == IF TypeofNumber(r.endTime) THEN r.endTime ELSE Num(0)
      e == IF Le(e0, s) THEN Add(s, SEARCH_FALLBACK) ELSE e0
  IN  mkClip(id, s, e)

ResolveSearch(r) ==
  LET clip == SearchClip(r)
  IN  IF StrictEq(r.startTime, SENTINEL)
      THEN [NoEffect EXCEPT !.msgs = <<"warn">>]
      ELSE [NoEffect EXCEPT
              !.analysisData = IF clip.id \in IdsOf(ClipsOf(analysisData))
                               THEN analysisData
                               ELSE Data(<<clip>> \o ClipsOf(analysisData)),
              !.play = TRUE,
              !.clip = clip]

\* the `HANDLE INTENTS` chain
Resolve(r, call) ==
  IF r.intent = "CLIP_EDIT" /\ r.hasData /\ call.activeClipId # NoId
  THEN ResolveClipEdit(r, call)
  ELSE IF r.intent = "REEL_ADD" /\ r.hasData THEN ResolveReelAdd(r, call)
  ELSE IF r.intent = "REEL_REMOVE" THEN ResolveReelRemove(r)
  ELSE IF r.intent = "REEL_CLEAR" THEN [NoEffect EXCEPT !.reel = <<>>]
  ELSE IF r.intent = "EDIT" /\ r.hasData THEN ResolveEdit(r)
  ELSE IF r.intent = "SEARCH" /\ r.hasData THEN ResolveSearch(r)
  ELSE NoEffect

(***************************************************************************)
(* Session handlers.                                                       *)
(***************************************************************************)
\* messages of one kind in the chat history
Count(kind) == Cardinality({i \in 1..Len(chatHistory) : chatHistory[i] = kind})

\* handleFileChange with a valid video file.  The file input is rendered only
\* while no file is loaded.  The cache lookup (dbService) finds nothing.
handleFileChange ==
  /\ ~file
  /\ file' = TRUE
  /\ analysisData' = NullData
  /\ chatHistory' = <<"welcome">>
  /\ reel' = <<>>
  /\ virtualEdit' = NullEdit
  /\ clipEdits' = [i \in {} |-> NoClipEdit]
  /\ videoTime' = 0
  /\ videoPaused' = TRUE
  /\ lastOp' = [op |-> "handleFileChange"]
  /\ lastSeeks' = <<>>
  /\ UNCHANGED <<modeVars, isTransitioning, isProcessingChat, chatCall, analyzeCalls,
                 exportVars, harnessVars>>
  /\ appState' = "READY"
  /\ fileUri' = FALSE

\* a reset that leaves the player mode and the selected clip as they are
resetKeepingMode ==
  /\ file
  /\ file' = FALSE
  /\ analysisData' = NullData
  /\ chatHistory' = <<>>
  /\ reel' = <<>>
  /\ virtualEdit' = NullEdit
  /\ clipEdits' = [i \in {} |-> NoClipEdit]
  /\ videoTime' = 0
  /\ videoPaused' = TRUE
  /\ lastOp' = [op |-> "reset"]
  /\ lastSeeks' = <<>>
  /\ UNCHANGED <<modeVars, isTransitioning, isProcessingChat, chatCall, analyzeCalls,
                 exportVars, harnessVars>>
  /\ appState' = "IDLE"
  /\ fileUri' = FALSE

\* reset (the New Project button, rendered while a file is loaded)
reset ==
  /\ file
  /\ file' = FALSE
  /\ analysisData' = NullData
  /\ activeClipId' = NoId
  /\ chatHistory' = <<>>
  /\ reel' = <<>>
  /\ playerMode' = "FULL"
  /\ virtualEdit' = NullEdit
  /\ clipEdits' = [i \in {} |-> NoClipEdit]
  /\ videoTime' = 0
  /\ videoPaused' = TRUE
  /\ lastOp' = [op |-> "reset"]
  /\ lastSeeks' = <<>>
  /\ UNCHANGED <<reelCurrentIndex, playedClip, isTransitioning, isProcessingChat, chatCall,
                 analyzeCalls,
                 exportVars, harnessVars>>
  /\ appState' = "IDLE"
  /\ fileUri' = FALSE

\* the Clear button of the reel
ClearReelButton ==
  /\ file
  /\ Len(reel) > 0
  /\ reel' = <<>>
  /\ lastOp' = [op |-> "clearReel"]
  /\ lastSeeks' = <<>>
  /\ UNCHANGED <<file, analysisData, virtualEdit, clipEdits, modeVars, videoVars,
                 chatVars, analyzeCalls, exportVars, harnessVars, appVars>>

\* handleAnalyze up to the call of the analysis oracle
handleAnalyze ==
  /\ file
  /\ Count("user-auto") < MaxAnalyses
  /\ chatHistory' = Append(chatHistory, "user-auto")
  /\ analyzeCalls' = analyzeCalls + 1
  /\ lastOp' = [op |-> "handleAnalyze"]
  /\ lastSeeks' = <<>>
  /\ UNCHANGED <<file, dataVars, modeVars, videoVars, isProcessingChat, chatCall,
                 exportVars, harnessVars>>
  /\ appState' = IF fileUri THEN "ANALYZING" ELSE "UPLOADING"
  /\ UNCHANGED fileUri

TENTHS_PER_SECOND == 10

\* |a - b| < 1 s on finite timestamps
Near(a, b) ==
  LET x == ToNumber(a)
      y == ToNumber(b)
  IN  /\ IsFinite(x) /\ IsFinite(y)
      /\ x.v - y.v < TENTHS_PER_SECOND
      /\ y.v - x.v < TENTHS_PER_SECOND

\* the library after an analysis result is ingested
Ingest(d, incoming) ==
  LET cur == ClipsOf(d)
      new == SelectSeq(incoming, LAMBDA nc :
               ~\E i \in 1..Len(cur) :
                  cur[i].id = nc.id \/ Near(cur[i].startTime, nc.startTime))
  IN  Data(cur \o new)

\* analyzeVideo resolves: its clips are sanitized, then ingested
AnalyzeDone(raws) ==
  /\ analyzeCalls > 0
  /\ analyzeCalls' = analyzeCalls - 1
  /\ analysisData' = Ingest(analysisData, SanitizeAll(raws))
  /\ chatHistory' = Append(chatHistory, "analysis")
  /\ lastOp' = [op |-> "analyzeDone"]
  /\ lastSeeks' = <<>>
  /\ UNCHANGED <<file, reel, virtualEdit, clipEdits, modeVars, videoVars,
                 isProcessingChat, chatCall, exportVars, harnessVars>>
  /\ appState' = "READY"
  /\ fileUri' = TRUE

\* the upload or analyzeVideo rejects
AnalyzeFail ==
  /\ analyzeCalls > 0
  /\ analyzeCalls' = analyzeCalls - 1
  /\ chatHistory' = Append(chatHistory, "err")
  /\ lastOp' = [op |-> "analyzeFail"]
  /\ lastSeeks' = <<>>
  /\ UNCHANGED <<file, dataVars, modeVars, videoVars, isProcessingChat, chatCall,
                 exportVars, harnessVars>>
  /\ appState' = "ERROR"
  /\ fileUri' \in {fileUri, TRUE}

\* handleSendMessage up to the call of the intent oracle
\* a handler that sends whether or not a command is being processed
handleSendMessageAlways ==
  /\ file
  /\ Count("user") < MaxCommands
  /\ chatHistory' = Append(chatHistory, "user")
  /\ isProcessingChat' = TRUE
  /\ chatCall' = [active |-> TRUE, activeClipId |-> activeClipId,
                  analysisData |-> analysisData, appState |-> appState,
                  uploading |-> ~fileUri]
  /\ lastOp' = [op |-> "handleSendMessage"]
  /\ lastSeeks' = <<>>
  /\ UNCHANGED <<file, dataVars, modeVars, videoVars, analyzeCalls, exportVars,
                 harnessVars>>
  /\ appState' = IF fileUri THEN "READY" ELSE "UPLOADING"
  /\ UNCHANGED fileUri

handleSendMessage ==
  /\ file
  /\ ~isProcessingChat
  /\ Count("user") < MaxCommands
  /\ chatHistory' = Append(chatHistory, "user")
  /\ isProcessingChat' = TRUE
  /\ chatCall' = [active |-> TRUE, activeClipId |-> activeClipId,
                  analysisData |-> analysisData, appState |-> appState,
                  uploading |-> ~fileUri]
  /\ lastOp' = [op |-> "handleSendMessage"]
  /\ lastSeeks' = <<>>
  /\ UNCHANGED <<file, dataVars, modeVars, videoVars, analyzeCalls, exportVars,
                 harnessVars>>
  /\ appState' = IF fileUri THEN "READY" ELSE "UPLOADING"
  /\ UNCHANGED fileUri

\* appState when the command settles.  With the upload of ensureFileUploaded
\* done, setAppState(READY) has run after it; the finally block then compares
\* the appState the handler captured when it was called.
AfterCommand(uploaded) ==
  IF chatCall.appState = "UPLOADING" THEN "READY"
  ELSE IF uploaded /\ chatCall.uploading THEN "READY"
  ELSE appState

\* the rest of handleSendMessage once processUserCommand has resolved with resp
OracleReturns(resp) ==
  LET r == processUserCommand(resp)
      e == Resolve(r, chatCall)
  IN  /\ chatCall.active
      /\ Len(FreeIds) > MaxBatch
      /\ analysisData' = e.analysisData
      /\ reel' = e.reel
      /\ virtualEdit' = e.virtualEdit
      /\ clipEdits' = e.clipEdits
      /\ chatHistory' = chatHistory \o <<"ai">> \o e.msgs
                          \o (IF e.threw THEN <<"err">> ELSE <<>>)
      /\ IF e.play /\ file THEN playClip(e.clip)
         ELSE IF e.seek
         THEN /\ videoTime' = Clamp(e.target)
              /\ videoPaused' = FALSE
              /\ lastSeeks' = <<e.target>>
              /\ UNCHANGED <<modeVars, isTransitioning>>
         ELSE /\ lastSeeks' = <<>>
              /\ UNCHANGED <<modeVars, videoVars>>
      /\ isProcessingChat' = FALSE
      /\ chatCall' = IdleCall
      /\ lastOp' = [op |-> "resolve", intent |-> resp.intent, all |-> resp.all,
                     sentinel |-> StrictEq(resp.startTime, SENTINEL), resp |-> resp]
      /\ UNCHANGED <<file, analyzeCalls, exportVars, harnessVars>>
      /\ appState' = AfterCommand(TRUE)
      /\ fileUri' = TRUE

\* the upload or processUserCommand rejects (service error, empty or unparsable text)
\* a catch that says nothing to the user
OracleFailsSilently ==
  /\ chatCall.active
  /\ isProcessingChat' = FALSE
  /\ chatCall' = IdleCall
  /\ lastSeeks' = <<>>
  /\ UNCHANGED <<file, dataVars, modeVars, videoVars, chatHistory, analyzeCalls,
                 exportVars, harnessVars>>
  /\ \E uploaded \in {TRUE, ~chatCall.uploading} :
       /\ appState' = AfterCommand(uploaded)
       /\ fileUri' = (fileUri \/ uploaded)
       /\ lastOp' = [op |-> "oracleFail", uploaded |-> uploaded]

OracleFails ==
  /\ chatCall.active
  /\ chatHistory' = Append(chatHistory, "err")
  /\ isProcessingChat' = FALSE
  /\ chatCall' = IdleCall
  /\ lastSeeks' = <<>>
  /\ UNCHANGED <<file, dataVars, modeVars, videoVars, analyzeCalls, exportVars,
                 harnessVars>>
  /\ \E uploaded \in {TRUE, ~chatCall.uploading} :
       /\ appState' = AfterCommand(uploaded)
       /\ fileUri' = (fileUri \/ uploaded)
       /\ lastOp' = [op |-> "oracleFail", uploaded |-> uploaded]

(***************************************************************************)
(* Export handlers.  An entry of exports is one processAndDownload run     *)
(* with the handler call that awaits it: the clips of the run, how far the *)
(* segment loop has come, what the recorder has captured, the state of the *)
(* returned promise, and for handleDownloadAllClips the clips still to do  *)
(* and the count of downloads so far.                                      *)
(***************************************************************************)
\* data chunks one recorder delivers
MaxChunks == 2

\* the runs whose promise is still pending
Running == {i \in 1..Len(exports) : exports[i].promise = "pending"}

Without(sq, i) == [j \in 1..(Len(sq) - 1) |-> IF j < i THEN sq[j] ELSE sq[j + 1]]

NewRun(by, clips, queue, count) ==
  [by |-> by, clips |-> clips, queue |-> queue, count |-> count,
   phase |-> "load", at |-> 0, sought |-> <<>>, played |-> <<>>,
   chunks |-> 0, failed |-> FALSE, downloaded |-> FALSE,
   attached |-> TRUE, recorder |-> "none",
   clipEdits |-> clipEdits, virtualEdit |-> virtualEdit,
   promise |-> "pending", awaited |-> TRUE]

\* a further run of the handler call that made run x: processAndDownload is the
\* closure of that call and draws with the edits it captured
NextRun(x, run) ==
  [run EXCEPT !.clipEdits = x.clipEdits, !.virtualEdit = x.virtualEdit]

handleDownloadClip ==
  /\ file
  /\ ~isExportingSmart
  /\ downloadingClipId = NoId
  /\ Len(exports) < MaxExports
  /\ \E clip \in Range(ClipsOf(analysisData)) :
       /\ downloadingClipId' = clip.id
       /\ exports' = Append(exports, NewRun("clip", <<clip>>, <<>>, 0))
       /\ lastOp' = [op |-> "handleDownloadClip"]
  /\ lastSeeks' = <<>>
  /\ UNCHANGED <<file, dataVars, modeVars, videoVars, chatVars, analyzeCalls,
                 isExportingSmart, harnessVars, appVars>>

handleDownloadAllClips ==
  /\ file
  /\ ~analysisData.isNull
  /\ ~isExportingSmart
  /\ Len(analysisData.clips) > 0
  /\ Len(exports) < MaxExports
  /\ isExportingSmart' = TRUE
  /\ downloadingClipId' = analysisData.clips[1].id
  /\ exports' = Append(exports, NewRun("all", <<analysisData.clips[1]>>,
                                       Tail(analysisData.clips), 0))
  /\ lastOp' = [op |-> "handleDownloadAllClips"]
  /\ lastSeeks' = <<>>
  /\ UNCHANGED <<file, dataVars, modeVars, videoVars, chatVars, analyzeCalls, harnessVars, appVars>>

\* handleExportReel, from the reel's Export button or the library's compilation button
handleExportReel(clipsToExport) ==
  /\ file
  /\ Len(clipsToExport) > 0
  /\ ~isExportingSmart
  /\ Len(exports) < MaxExports
  /\ isExportingSmart' = TRUE
  /\ exports' = Append(exports, NewRun("reel", clipsToExport, <<>>, 0))
  /\ lastOp' = [op |-> "handleExportReel"]
  /\ lastSeeks' = <<>>
  /\ UNCHANGED <<file, dataVars, modeVars, videoVars, chatVars, analyzeCalls,
                 downloadingClipId, harnessVars, appVars>>

ExportReelButton == handleExportReel(reel)

ExportCompilationButton == handleExportReel(ClipsOf(analysisData))

\* what a step of run i leaves alone
WorkerFrame ==
  /\ lastSeeks' = <<>>
  /\ UNCHANGED <<file, dataVars, modeVars, videoVars, chatVars, analyzeCalls,
                 isExportingSmart, downloadingClipId, harnessVars, appVars>>

\* a run nobody waits for any more, whose recorder has stopped or never started
Finished(x) ==
  /\ ~x.awaited
  /\ x.phase \in {"stopped", "rejected"}
  /\ ~(x.by = "all" /\ x.queue # <<>>)

\* exports with run i replaced by x, or without it when x is finished
Put(i, x) == IF Finished(x) THEN Without(exports, i) ELSE [exports EXCEPT ![i] = x]

\* the worker video has its metadata: the recorder is started, the loop begins
WorkerLoaded(i) ==
  LET x == exports[i]
  IN  /\ x.phase = "load"
      /\ exports' = Put(i, [x EXCEPT !.phase = IF x.clips = <<>> THEN "stopping" ELSE "seek",
                                     !.recorder = IF x.clips = <<>> THEN "inactive"
                                                  ELSE "recording"])
      /\ lastOp' = [op |-> "workerLoaded", run |-> i]
      /\ WorkerFrame

\* a failure before the recorder exists that leaves the worker video in the page
WorkerLoadFailsAttached(i) ==
  LET x == exports[i]
  IN  /\ x.phase = "load"
      /\ exports' = Put(i, [x EXCEPT !.phase = "rejected", !.promise = "rejected"])
      /\ lastOp' = [op |-> "workerLoadFails", run |-> i]
      /\ WorkerFrame

\* no canvas context, no metadata within 5 s, or a load error: the worker video
\* is removed from the page and processAndDownload throws
WorkerLoadFails(i) ==
  LET x == exports[i]
  IN  /\ x.phase = "load"
      /\ exports' = Put(i, [x EXCEPT !.phase = "rejected", !.promise = "rejected",
                                     !.attached = FALSE])
      /\ lastOp' = [op |-> "workerLoadFails", run |-> i]
      /\ WorkerFrame

EXPORT_FALLBACK == 50

\* the start and end the segment loop works with for a clip
ExportSegment(clip) ==
  LET start == IF ~IsFinite(clip.startTime) \/ clip.startTime.v < 0
               THEN 0 ELSE clip.startTime.v
      end0 == IF ~IsFinite(clip.endTime) THEN 0 ELSE clip.endTime.v
  IN  [start |-> start, end |-> IF end0 <= start THEN start + EXPORT_FALLBACK ELSE end0]

\* the clip the segment loop is at, taken from the back of the list
WorkerClipBackwards(x) == x.clips[Len(x.clips) - x.at]

\* the clip the segment loop is at
WorkerClip(x) == x.clips[x.at + 1]

\* the loop sets the worker's currentTime to the clip's start and waits for the
\* seek to complete
WorkerSeeks(i) ==
  LET x == exports[i]
  IN  /\ x.phase = "seek"
      /\ exports' = Put(i, [x EXCEPT !.phase = "seeking",
                                     !.sought = Append(@, ExportSegment(WorkerClip(x)).start)])
      /\ lastOp' = [op |-> "workerSeeks", run |-> i]
      /\ WorkerFrame

\* the worker fires 'seeked': the loop goes on to play
WorkerSeeked(i) ==
  LET x == exports[i]
  IN  /\ x.phase = "seeking"
      /\ exports' = Put(i, [x EXCEPT !.phase = "play"])
      /\ lastOp' = [op |-> "workerSeeked", run |-> i]
      /\ WorkerFrame

\* a wait for 'seeked' without a timer
NeverTimesOut(i) == FALSE

\* no 'seeked' within 2 s: the timer ends the wait and the loop goes on to play
WorkerSeekTimeout(i) ==
  LET x == exports[i]
  IN  /\ x.phase = "seeking"
      /\ exports' = Put(i, [x EXCEPT !.phase = "play"])
      /\ lastOp' = [op |-> "workerSeekTimeout", run |-> i]
      /\ WorkerFrame

\* the worker has played to the clip's end ("reached", possible when the end lies
\* within the source) or has paused or ended before it ("halted"): the loop
\* pauses it and goes on to the next clip, or stops the recorder after the last
WorkerPlayed(i, how) ==
  LET x == exports[i]
      seg == ExportSegment(WorkerClip(x))
      last == x.at + 1 = Len(x.clips)
  IN  /\ x.phase = "play"
      /\ how = "reached" => seg.end <= Duration
      /\ exports' = Put(i, [x EXCEPT !.at = @ + 1,
                                     !.played = Append(@, [start |-> seg.start,
                                                           end |-> seg.end, how |-> how]),
                                     !.phase = IF last THEN "stopping" ELSE "seek",
                                     !.recorder = IF last THEN "inactive" ELSE @])
      /\ lastOp' = [op |-> "workerPlayed", run |-> i]
      /\ WorkerFrame

\* an exception in the segment loop (play() rejects): the catch stops the
\* recorder, removes the worker video from the page and resolves the promise
WorkerThrows(i) ==
  LET x == exports[i]
  IN  /\ x.phase \in {"seek", "play"}
      /\ exports' = Put(i, [x EXCEPT !.phase = "stopping", !.failed = TRUE,
                                     !.recorder = "inactive", !.attached = FALSE,
                                     !.promise = "resolved"])
      /\ lastOp' = [op |-> "workerThrows", run |-> i]
      /\ WorkerFrame

ACTIVE_MARGIN == 5

\* clipsToProcess.find(c => currentTime >= c.startTime && currentTime <=
\* c.endTime + 0.5): its index, 0 when there is none
ActiveClip(clips, t) ==
  LET hits == {i \in 1..Len(clips) :
                 /\ Ge(Num(t), clips[i].startTime)
                 /\ Le(Num(t), Add(ToNumber(clips[i].endTime), ACTIVE_MARGIN))}
  IN  IF hits = {} THEN 0 ELSE CHOOSE i \in hits : \A j \in hits : i <= j

\* a draw that prefers the filter of the virtual edit
DrawFilterGlobalFirst(x, t) ==
  LET a == ActiveClip(x.clips, t)
      own == IF a # 0 THEN EditOf(x.clipEdits, x.clips[a].id).filterStyle ELSE Absent
  IN  IF ~x.virtualEdit.isNull /\ x.virtualEdit.filterStyle \notin {Absent, ""}
      THEN x.virtualEdit.filterStyle
      ELSE IF own \notin {Absent, ""} THEN own
      ELSE "none"

\* the filter draw() sets for the video frame at worker time t
DrawFilter(x, t) ==
  LET a == ActiveClip(x.clips, t)
      own == IF a # 0 THEN EditOf(x.clipEdits, x.clips[a].id).filterStyle ELSE Absent
  IN  IF own \notin {Absent, ""} THEN own
      ELSE IF ~x.virtualEdit.isNull /\ x.virtualEdit.filterStyle \notin {Absent, ""}
      THEN x.virtualEdit.filterStyle
      ELSE "none"

\* one animation frame of run i with the worker at time t: the video frame is
\* drawn with its filter, then the filter is reset for subtitles and overlays
Draw(i, t) ==
  LET x == exports[i]
  IN  /\ x.recorder = "recording"
      /\ lastOp' = [op |-> "draw", run |-> i, time |-> t, filter |-> DrawFilter(x, t),
                    textFilter |-> "none", active |-> ActiveClip(x.clips, t)]
      /\ UNCHANGED exports
      /\ WorkerFrame

\* ondataavailable keeps a chunk that is not empty
Captures(size) == size > 0

\* the recorder, started and not yet stopped for good, delivers a chunk of a size
DataAvailable(i, size) ==
  LET x == exports[i]
  IN  /\ x.phase \in {"seek", "seeking", "play", "stopping"}
      /\ x.chunks < MaxChunks
      /\ exports' = Put(i, [x EXCEPT !.chunks = IF Captures(size) THEN @ + 1 ELSE @])
      /\ lastOp' = [op |-> "dataavailable", run |-> i, size |-> size]
      /\ WorkerFrame

\* onstop offers a file whatever was captured
DownloadsAlways(x) == TRUE

\* onstop offers a file when chunks were captured
Downloads(x) == x.chunks > 0

\* the recorder's stop event: the file is offered and the promise resolved
RecorderStops(i) ==
  LET x == exports[i]
  IN  /\ x.phase = "stopping"
      /\ exports' = Put(i, [x EXCEPT !.phase = "stopped", !.downloaded = Downloads(x),
                                     !.attached = FALSE, !.promise = "resolved"])
      /\ lastOp' = [op |-> "onstop", run |-> i, downloaded |-> Downloads(x)]
      /\ WorkerFrame

\* the promise of run i has settled: the handler that awaits it goes on.
\* handleDownloadClip and handleExportReel alert on a rejection and reset their
\* flag; handleDownloadAllClips counts a resolved run and waits 800 ms, and after
\* a rejected one takes its next clip at once
ExportSettles(i) ==
  LET x == exports[i]
      ok == x.promise = "resolved"
      count == IF ok THEN x.count + 1 ELSE x.count
      done == [x EXCEPT !.awaited = FALSE, !.count = count]
  IN  /\ x.awaited
      /\ x.promise # "pending"
      /\ IF x.by = "clip"
         THEN /\ downloadingClipId' = NoId
              /\ exports' = Put(i, done)
              /\ lastOp' = [op |-> "exportSettles", by |-> x.by, failed |-> x.failed,
                            counted |-> FALSE, alert |-> IF ok THEN "none" ELSE "failed"]
              /\ UNCHANGED isExportingSmart
         ELSE IF x.by = "reel"
         THEN /\ isExportingSmart' = FALSE
              /\ exports' = Put(i, done)
              /\ lastOp' = [op |-> "exportSettles", by |-> x.by, failed |-> x.failed,
                            counted |-> FALSE, alert |-> IF ok THEN "none" ELSE "failed"]
              /\ UNCHANGED downloadingClipId
         ELSE IF x.queue = <<>>
         THEN /\ isExportingSmart' = FALSE
              /\ downloadingClipId' = NoId
              /\ exports' = Put(i, done)
              /\ lastOp' = [op |-> "exportSettles", by |-> x.by, failed |-> x.failed,
                            counted |-> ok, alert |-> "downloaded"]
         ELSE IF ok
         THEN /\ exports' = Put(i, done)
              /\ lastOp' = [op |-> "exportSettles", by |-> x.by, failed |-> x.failed,
                            counted |-> ok, alert |-> "none"]
              /\ UNCHANGED <<isExportingSmart, downloadingClipId>>
         ELSE /\ downloadingClipId' = x.queue[1].id
              /\ exports' = [exports EXCEPT ![i] =
                               NextRun(x, NewRun("all", <<x.queue[1]>>, Tail(x.queue), count))]
              /\ lastOp' = [op |-> "exportSettles", by |-> x.by, failed |-> x.failed,
                            counted |-> ok, alert |-> "none"]
              /\ UNCHANGED isExportingSmart
      /\ lastSeeks' = <<>>
      /\ UNCHANGED <<file, dataVars, modeVars, videoVars, chatVars, analyzeCalls,
                     harnessVars, appVars>>

\* the 800 ms are over: the loop of handleDownloadAllClips takes its next clip
DownloadAllNext(i) ==
  LET x == exports[i]
  IN  /\ i \in 1..Len(exports)
      /\ x.by = "all"
      /\ ~x.awaited
      /\ x.phase = "stopped"
      /\ x.queue # <<>>
      /\ downloadingClipId' = x.queue[1].id
      /\ exports' = [exports EXCEPT ![i] =
                       NextRun(x, NewRun("all", <<x.queue[1]>>, Tail(x.queue), x.count))]
      /\ lastOp' = [op |-> "downloadAllNext"]
      /\ lastSeeks' = <<>>
      /\ UNCHANGED <<file, dataVars, modeVars, videoVars, chatVars, analyzeCalls,
                     isExportingSmart, harnessVars, appVars>>

(***************************************************************************)
(* What the oracles may answer.                                            *)
(***************************************************************************)
Intents == {"SEARCH", "EDIT", "CLIP_EDIT", "REEL_ADD", "REEL_REMOVE", "REEL_CLEAR", "UNKNOWN"}

\* clips as the oracles may describe them: with and without an id, with a start
\* that is missing, the "not localizable" sentinel or a position, with an end that
\* is missing or not after the start
AnalysisClips == {mkClip("a", Num(0), Num(50)), mkClip("b", Num(100), Undef)}
AnalysisBatches == UNION {[1..n -> AnalysisClips] : n \in 1..MaxBatch}

BatchClips == {mkClip("a", Num(100), Undef), mkClip(NoId, Num(0), Num(50))}
Batches == UNION {[1..n -> BatchClips] : n \in 1..MaxBatch}

WithClip(intent, c) ==
  [Resp(intent) EXCEPT !.id = c.id, !.startTime = c.startTime, !.endTime = c.endTime]

SearchResponses ==
  {WithClip("SEARCH", c) :
     c \in {mkClip("a", Num(SENTINEL), Undef), mkClip(NoId, Num(100), Undef),
            mkClip(NoId, Undef, Num(50))}}

ReelAddResponses ==
  {[Resp("REEL_ADD") EXCEPT !.all = TRUE]}
    \cup {[Resp("REEL_ADD") EXCEPT !.hasClips = TRUE, !.clips = b] : b \in Batches}
    \cup {WithClip("REEL_ADD", c) :
            c \in {mkClip(NoId, Num(100), Num(50)), mkClip("a", Num(0), Undef)}}

ReelRemoveResponses ==
  {[Resp("REEL_REMOVE") EXCEPT !.index = x] : x \in {Num(-1), Num(0)}}

SomeKeeps == {<<Seg(Num(0), Num(50)), Seg(Num(100), Num(150))>>}

EditResponses ==
  {[Resp("EDIT") EXCEPT !.filterStyle = "sepia(1)"]}
    \cup {[Resp("EDIT") EXCEPT !.hasKeep = TRUE, !.keepSegments = k] : k \in SomeKeeps}

ClipEditResponses ==
  {[Resp("CLIP_EDIT") EXCEPT !.filterStyle = "grayscale(1)"],
   [Resp("CLIP_EDIT") EXCEPT !.startTime = Num(100), !.endTime = Num(50)]}

NoDataResponses ==
  {[Resp(i) EXCEPT !.hasData = FALSE] :
     i \in {"SEARCH", "EDIT", "CLIP_EDIT", "REEL_ADD", "REEL_REMOVE"}}

Responses ==
  SearchResponses \cup ReelAddResponses \cup ReelRemoveResponses \cup EditResponses
    \cup ClipEditResponses \cup NoDataResponses
    \cup {Resp("REEL_CLEAR"), Resp("UNKNOWN")}

(***************************************************************************)
(* The edit resolver: sessions in which the oracles answer anything.       *)
(***************************************************************************)
Next ==
  \/ handleFileChange
  \/ handleAnalyze
  \/ \E raws \in AnalysisBatches : AnalyzeDone(raws)
  \/ AnalyzeFail
  \/ handleSendMessage
  \/ \E resp \in Responses : OracleReturns(resp)
  \/ OracleFails

Spec == Init /\ [][Next]_vars

(***************************************************************************)
(* Player modes: the resolver together with the clicks on clips and reel   *)
(* and the playback ticks.                                                 *)
(***************************************************************************)
ModeResponses ==
  {WithClip("SEARCH", mkClip("a", Num(100), Undef)),
   [Resp("REEL_ADD") EXCEPT !.hasClips = TRUE,
                            !.clips = <<mkClip("a", Num(100), Undef)>>],
   WithClip("REEL_ADD", mkClip("b", Num(0), Num(50))),
   Resp("REEL_CLEAR"),
   [Resp("EDIT") EXCEPT !.filterStyle = "sepia(1)"]}

NextModes ==
  \/ handleFileChange
  \/ handleAnalyze
  \/ \E raws \in AnalysisBatches : AnalyzeDone(raws)
  \/ handleSendMessage
  \/ \E resp \in ModeResponses : OracleReturns(resp)
  \/ ClearReelButton
  \/ ClickClip
  \/ playReel
  \/ MoveHead(CoarseTimes)
  \/ handleTimeUpdate
  \/ TransitionEnds

SpecModes == Init /\ [][NextModes]_vars

(***************************************************************************)
(* Virtual-edit playback: EDIT intents with any keepSegments, and the      *)
(* ticks of FULL mode over them.                                           *)
(***************************************************************************)
\* segments in any order and repeated, zero-length, beyond the duration, with a
\* non-finite start
KeepSegs ==
  {Seg(Num(0), Num(50)), Seg(Num(100), Num(150)), Seg(Num(100), Num(100)),
   Seg(Num(400), Num(450)), Seg(PosInf, PosInf)}
KeepLists == UNION {[1..n -> KeepSegs] : n \in 0..MaxSegs}

PlaybackResponses ==
  {[Resp("EDIT") EXCEPT !.hasKeep = TRUE, !.keepSegments = k] : k \in KeepLists}
    \cup {Resp("EDIT")}

NextPlayback ==
  \/ handleFileChange
  \/ handleSendMessage
  \/ \E resp \in PlaybackResponses : OracleReturns(resp)
  \/ MoveHead(TimeSamples)
  \/ handleTimeUpdate

SpecPlayback == Init /\ [][NextPlayback]_vars

(***************************************************************************)
(* Exports: the three export handlers over a library and a reel.           *)
(***************************************************************************)
ExportResponses == {[Resp("REEL_ADD") EXCEPT !.all = TRUE]}

NextExport ==
  \/ handleFileChange
  \/ handleAnalyze
  \/ \E raws \in AnalysisBatches : AnalyzeDone(raws)
  \/ handleSendMessage
  \/ \E resp \in ExportResponses : OracleReturns(resp)
  \/ handleDownloadClip
  \/ handleDownloadAllClips
  \/ ExportReelButton
  \/ ExportCompilationButton
  \/ \E i \in 1..Len(exports) : WorkerLoaded(i)
  \/ \E i \in 1..Len(exports) : WorkerSeeks(i)
  \/ \E i \in 1..Len(exports) : WorkerSeeked(i)
  \/ \E i \in 1..Len(exports) : WorkerPlayed(i, "halted")
  \/ \E i \in 1..Len(exports) : RecorderStops(i)
  \/ \E i \in 1..Len(exports) : ExportSettles(i)
  \/ \E i \in 1..Len(exports) : DownloadAllNext(i)

SpecExport == Init /\ [][NextExport]_vars

(***************************************************************************)
(* sanitizeClip on its own: any record in, one application.                *)
(***************************************************************************)
SanIds == {"a", NoId}
SanStarts == {Undef, Null, Str, NaN, PosInf, NegInf, Num(-10), Num(0), Num(100)}
SanEnds == {Undef, Null, Str, NaN, PosInf, Num(-10), Num(0), Num(100), Num(200), Num(500)}
SanInputs == {mkClip(i, a, b) : i \in SanIds, a \in SanStarts, b \in SanEnds}

InitSanitize ==
  /\ InitSession
  /\ sanIn \in SanInputs
  /\ sanOut = NoClip
  /\ smartIn = <<>>
  /\ smartOut = <<>>
  /\ upload = NoUpload

ApplySanitize ==
  /\ lastOp.op # "sanitizeClip"
  /\ sanOut' = sanitizeClip(sanIn, "gen-1")
  /\ lastOp' = [op |-> "sanitizeClip"]
  /\ UNCHANGED <<file, dataVars, modeVars, videoVars, chatVars, analyzeCalls, exportVars,
                 lastSeeks, sanIn, smartIn, smartOut, upload, appVars>>

SpecSanitize == InitSanitize /\ [][ApplySanitize]_vars

(***************************************************************************)
(* performSmartEdit: the keep ranges computed from a transcript when the   *)
(* user asks to remove silence or filler words.  Times are tenths of a     *)
(* second.                                                                 *)
(***************************************************************************)
PADDING == 1
GAP_THRESHOLD == 5
SMART_FALLBACK_END == 100
FILLER_WORDS ==
  {"um", "uh", "ah", "umm", "uhh", "hmm", "er", "like", "you know", "basically",
   "literally"}

\* seg.text.toLowerCase().replace(/[^a-z\s]/g, '').trim() on the texts of the model
CleanText(text) ==
  CASE text = "Um!" -> "um"
    [] text = "42" -> ""
    [] OTHER -> text

\* the filter of performSmartEdit: a segment with text that is not just a filler
IsSpeech(seg) ==
  /\ seg.text # ""
  /\ CleanText(seg.text) # ""
  /\ CleanText(seg.text) \notin FILLER_WORDS

Max(a, b) == IF a >= b THEN a ELSE b

\* the loop of performSmartEdit from segment i on, with the range being built
\* and the ranges pushed so far
RECURSIVE MergeFrom(_, _, _, _)
MergeFrom(valid, i, current, merged) ==
  IF i > Len(valid) THEN Append(merged, current)
  ELSE LET nextStart == Max(0, valid[i].start - PADDING)
           nextEnd == valid[i].end + PADDING
       IN  IF nextStart <= current.end + GAP_THRESHOLD
           THEN MergeFrom(valid, i + 1, [current EXCEPT !.end = Max(@, nextEnd)], merged)
           ELSE MergeFrom(valid, i + 1, [start |-> nextStart, end |-> nextEnd],
                          Append(merged, current))

performSmartEdit(transcript) ==
  LET valid == SelectSeq(transcript, IsSpeech)
  IN  IF Len(valid) = 0 THEN <<[start |-> 0, end |-> SMART_FALLBACK_END]>>
      ELSE MergeFrom(valid, 2,
                     [start |-> Max(0, valid[1].start - PADDING),
                      end |-> valid[1].end + PADDING], <<>>)

\* segments of the transcripts the function is applied to
MaxTranscript == 3
SmartStarts == {-10, 0, 5, 12, 20}
SmartLengths == {0, 3}
SmartTexts == {"", "Um!", "hello"}
SmartSegments ==
  {[start |-> a, end |-> a + d, text |-> t] :
     a \in SmartStarts, d \in SmartLengths, t \in SmartTexts}
Transcripts == UNION {[1..n -> SmartSegments] : n \in 0..MaxTranscript}

InitSmartEdit ==
  /\ InitSession
  /\ sanIn = NoClip
  /\ sanOut = NoClip
  /\ smartIn \in Transcripts
  /\ smartOut = <<>>
  /\ upload = NoUpload

ApplySmartEdit ==
  /\ lastOp.op # "performSmartEdit"
  /\ smartOut' = performSmartEdit(smartIn)
  /\ lastOp' = [op |-> "performSmartEdit"]
  /\ UNCHANGED <<file, dataVars, modeVars, videoVars, chatVars, analyzeCalls, exportVars,
                 lastSeeks, sanIn, sanOut, smartIn, upload, appVars>>

SpecSmartEdit == InitSmartEdit /\ [][ApplySmartEdit]_vars

(***************************************************************************)
(* uploadVideo (geminiService.ts 180-210): the file is uploaded, its state *)
(* is read once, and while the state is PROCESSING the function waits two  *)
(* seconds, reads the state again and counts the read in attempts.  One    *)
(* action is one run of the function between two awaits.  Every await of   *)
(* the oracle (files.upload, files.get) may reject; the rejection leaves   *)
(* the function as its own exception.                                      *)
(***************************************************************************)
maxAttempts == 60

FileStates == {"PROCESSING", "ACTIVE", "FAILED", "STATE_UNSPECIFIED"}

\* The guard of the throw inside the loop, one re-poll later.
TimedOutLate(attempts) == attempts > maxAttempts

\* if (attempts >= maxAttempts) throw new Error("Video processing timed out.")
TimedOut(attempts) == attempts >= maxAttempts

\* files.upload and the first files.get have resolved; attempts = 0.
uploadVideo(s) ==
  /\ upload.pc \in {"idle", "done"}
  /\ upload' = [pc |-> "while", attempts |-> 0, state |-> s, outcome |-> "none"]
  /\ lastOp' = [op |-> "uploadVideo"]
  /\ UNCHANGED <<file, dataVars, modeVars, videoVars, chatVars, analyzeCalls, exportVars,
                 lastSeeks, sanIn, sanOut, smartIn, smartOut, appVars>>

\* files.upload or a files.get rejects: uploadVideo throws what the oracle threw.
GetRejects ==
  /\ \/ upload.pc \in {"idle", "done"}
     \/ upload.pc = "while" /\ upload.state = "PROCESSING" /\ ~TimedOut(upload.attempts)
  /\ upload' = [pc |-> "done", outcome |-> "rejected",
                attempts |-> IF upload.pc = "while" THEN upload.attempts ELSE 0,
                state |-> IF upload.pc = "while" THEN upload.state ELSE "NONE"]
  /\ lastOp' = [op |-> "getRejects"]
  /\ UNCHANGED <<file, dataVars, modeVars, videoVars, chatVars, analyzeCalls, exportVars,
                 lastSeeks, sanIn, sanOut, smartIn, smartOut, appVars>>

\* One pass of the loop body: the timer fires, files.get resolves with s, attempts++.
Repoll(s) ==
  /\ upload.pc = "while"
  /\ upload.state = "PROCESSING"
  /\ ~TimedOut(upload.attempts)
  /\ upload' = [upload EXCEPT !.state = s, !.attempts = @ + 1]
  /\ lastOp' = [op |-> "repoll"]
  /\ UNCHANGED <<file, dataVars, modeVars, videoVars, chatVars, analyzeCalls, exportVars,
                 lastSeeks, sanIn, sanOut, smartIn, smartOut, appVars>>

\* The loop's test holds and the budget is spent: the timeout error.
PollTimesOut ==
  /\ upload.pc = "while"
  /\ upload.state = "PROCESSING"
  /\ TimedOut(upload.attempts)
  /\ upload' = [upload EXCEPT !.pc = "done", !.outcome = "timeout"]
  /\ lastOp' = [op |-> "pollTimesOut"]
  /\ UNCHANGED <<file, dataVars, modeVars, videoVars, chatVars, analyzeCalls, exportVars,
                 lastSeeks, sanIn, sanOut, smartIn, smartOut, appVars>>

\* The loop's test fails: FAILED throws, every other state returns fileInfo.uri.
PollEnds ==
  /\ upload.pc = "while"
  /\ upload.state # "PROCESSING"
  /\ upload' = [upload EXCEPT !.pc = "done",
                  !.outcome = IF upload.state = "FAILED" THEN "failed" ELSE "returned"]
  /\ lastOp' = [op |-> "pollEnds"]
  /\ UNCHANGED <<file, dataVars, modeVars, videoVars, chatVars, analyzeCalls, exportVars,
                 lastSeeks, sanIn, sanOut, smartIn, smartOut, appVars>>

InitUpload ==
  /\ InitSession
  /\ sanIn = NoClip
  /\ sanOut = NoClip
  /\ smartIn = <<>>
  /\ smartOut = <<>>
  /\ upload = NoUpload

NextUpload ==
  \/ \E s \in FileStates : uploadVideo(s)
  \/ GetRejects
  \/ \E s \in FileStates : Repoll(s)
  \/ PollTimesOut
  \/ PollEnds

SpecUpload == InitUpload /\ [][NextUpload]_vars

\* The two-second timer fires and a request to the oracle settles; the
\* synchronous code after an await runs once the await has settled.
UploadFairness ==
  /\ WF_vars(GetRejects \/ \E s \in FileStates : Repoll(s))
  /\ WF_vars(PollTimesOut)
  /\ WF_vars(PollEnds)

SpecUploadLive == InitUpload /\ [][NextUpload]_vars /\ UploadFairness

(***************************************************************************)
(* Reel playback: a reel is filled by REEL_ADD, played with playReel and   *)
(* left to play by itself.                                                 *)
(***************************************************************************)
\* the last clip has no end: sanitizeClip gives it 15 s, past the end of the source
ReelClips ==
  {mkClip("a", Num(0), Num(50)), mkClip("b", Num(100), Num(150)),
   mkClip("c", Num(250), Undef)}
ReelBatches == UNION {[1..n -> ReelClips] : n \in 1..MaxBatch}
ReelResponses ==
  {[Resp("REEL_ADD") EXCEPT !.hasClips = TRUE, !.clips = b] : b \in ReelBatches}

NextReel ==
  \/ handleFileChange
  \/ handleSendMessage
  \/ \E resp \in ReelResponses : OracleReturns(resp)
  \/ playReel
  \/ Advance
  \/ handleTimeUpdate
  \/ TransitionEnds

SpecReel == Init /\ [][NextReel]_vars

(***************************************************************************)
(* REEL_REMOVE on its own: any reel of up to MaxReel entries in a session  *)
(* with a file loaded, and any index.                                      *)
(***************************************************************************)
\* entries of the reels REEL_REMOVE is applied to
MaxReel == 3

\* reel entries are snapshots: the same id may stand for different times
RemoveReelClips ==
  {mkClip("a", Num(0), Num(50)), mkClip("a", Num(100), Num(150)),
   mkClip("b", Num(100), Num(150))}
RemoveReels == UNION {[1..n -> RemoveReelClips] : n \in 0..MaxReel}

RemoveIndexes == {Num(k) : k \in -2..(MaxReel + 1)} \cup {Undef}
RemoveResponses == {[Resp("REEL_REMOVE") EXCEPT !.index = k] : k \in RemoveIndexes}

InitReelRemove ==
  \E rl \in RemoveReels : SessionWith(TRUE, NullData, rl, NoId, NoClipEdits, <<"welcome">>)

NextReelRemove ==
  \/ handleSendMessage
  \/ \E resp \in RemoveResponses : OracleReturns(resp)

SpecReelRemove == InitReelRemove /\ [][NextReelRemove]_vars

(***************************************************************************)
(* CLIP_EDIT on its own: a session with a library, a selected clip or      *)
(* none, and clip edits already stored; the oracle names any fields.       *)
(***************************************************************************)
ClipEditLibrary == Data(<<mkClip("a", Num(0), Num(50)), mkClip("b", Num(100), Num(150))>>)
StoredClipEdits ==
  {NoClipEdits,
   [i \in {"b"} |-> [filterStyle |-> "blur(2px)", subtitles |-> Absent, overlay |-> Absent]]}

\* a field is left out, or given as the empty string, or given a value
FilterStyles == {Absent, "", "grayscale(1)", "sepia(1)"}
Subtitles == {Absent, "", "Hola"}
Overlays == {Absent, "star"}
ClipEditFieldResponses ==
  {[Resp("CLIP_EDIT") EXCEPT !.filterStyle = f, !.subtitles = t, !.overlay = o] :
     f \in FilterStyles, t \in Subtitles, o \in Overlays}

InitClipEdit ==
  \E id \in {NoId, "a", "b"}, edits \in StoredClipEdits :
    SessionWith(TRUE, ClipEditLibrary, <<>>, id, edits, <<"welcome">>)

NextClipEdit ==
  \/ handleSendMessage
  \/ \E resp \in ClipEditFieldResponses : OracleReturns(resp)

SpecClipEdit == InitClipEdit /\ [][NextClipEdit]_vars

(***************************************************************************)
(* Retiming: a session with a library, a reel of entries added from it and *)
(* a selected clip; REEL_ADD adds further entries and CLIP_EDIT rewrites   *)
(* the times of the selected clip.                                         *)
(***************************************************************************)
RetimeReels == UNION {[1..n -> Range(ClipEditLibrary.clips)] : n \in 0..MaxReel}

\* a time is left out or given
RetimeStarts == {Undef, Num(20), Num(100)}
RetimeEnds == {Undef, Num(40), Num(0)}
RetimeResponses ==
  {[Resp("CLIP_EDIT") EXCEPT !.startTime = a, !.endTime = b] :
     a \in RetimeStarts, b \in RetimeEnds}
    \cup {[Resp("REEL_ADD") EXCEPT !.all = TRUE]}

InitRetime ==
  \E id \in {NoId, "a", "b"}, rl \in RetimeReels :
    SessionWith(TRUE, ClipEditLibrary, rl, id, NoClipEdits, <<"welcome">>)

NextRetime ==
  \/ handleSendMessage
  \/ \E resp \in RetimeResponses : OracleReturns(resp)

SpecRetime == InitRetime /\ [][NextRetime]_vars

(***************************************************************************)
(* The three authorities over the play head: a session with a library and  *)
(* a reel, in which virtual edits with keep segments arrive while clips    *)
(* and the reel are played.                                                *)
(***************************************************************************)
AuthorityReels == {<<mkClip("b", Num(100), Num(150))>>,
                   <<mkClip("a", Num(0), Num(50)), mkClip("b", Num(100), Num(150))>>}

AuthorityResponses ==
  {[Resp("EDIT") EXCEPT !.hasKeep = TRUE, !.keepSegments = k] :
     k \in {<<Seg(Num(100), Num(150))>>, <<Seg(Num(0), Num(50)), Seg(Num(250), Num(400))>>}}

InitAuthority ==
  \E rl \in AuthorityReels :
    SessionWith(TRUE, ClipEditLibrary, rl, NoId, NoClipEdits, <<"welcome">>)

NextAuthority ==
  \/ handleSendMessage
  \/ \E resp \in AuthorityResponses : OracleReturns(resp)
  \/ ClickClip
  \/ playReel
  \/ MoveHead(TimeSamples)
  \/ handleTimeUpdate
  \/ TransitionEnds

SpecAuthority == InitAuthority /\ [][NextAuthority]_vars

(***************************************************************************)
(* Seek targets: clips reach the library and the reel through REEL_ADD in  *)
(* its single-clip shape, with any start and end, and are then played.     *)
(***************************************************************************)
SeekStarts == {Num(-10), Num(0), Num(100), NaN, PosInf}
SeekEnds == {Num(50), Undef, NegInf}
SeekResponses ==
  {WithClip("REEL_ADD", mkClip("a", a, b)) : a \in SeekStarts, b \in SeekEnds}

InitSeeks == SessionWith(TRUE, NullData, <<>>, NoId, NoClipEdits, <<"welcome">>)

NextSeeks ==
  \/ handleSendMessage
  \/ \E resp \in SeekResponses : OracleReturns(resp)
  \/ ClickClip
  \/ playReel
  \/ MoveHead(CoarseTimes)
  \/ handleTimeUpdate
  \/ TransitionEnds

SpecSeeks == InitSeeks /\ [][NextSeeks]_vars

(***************************************************************************)
(* One export at a time: a session with a library and a reel, in which an  *)
(* export button is clicked only while no run is left, and the run goes    *)
(* through its load, its segment loop and the stop of its recorder.        *)
(***************************************************************************)
WorkerLibrary == Data(<<mkClip("a", Num(0), Num(50)), mkClip("b", Num(100), Num(150))>>)

\* reel entries are kept as the oracle gave them: without times, ending before
\* they start, ending beyond the source
WorkerReelClips ==
  {mkClip("a", Num(0), Num(50)), mkClip("b", Num(100), Num(150)),
   mkClip(NoId, Undef, Undef), mkClip("c", Num(250), Num(400)),
   mkClip("d", Num(100), Num(50))}
WorkerReels == UNION {[1..n -> WorkerReelClips] : n \in 0..MaxBatch}

ChunkSizes == {0, 1}

InitWorker ==
  \E rl \in WorkerReels :
    SessionWith(TRUE, WorkerLibrary, rl, NoId, NoClipEdits, <<"welcome">>)

NextWorker ==
  \/ exports = <<>> /\ handleDownloadClip
  \/ exports = <<>> /\ handleDownloadAllClips
  \/ exports = <<>> /\ ExportReelButton
  \/ exports = <<>> /\ ExportCompilationButton
  \/ \E i \in 1..Len(exports) : WorkerLoaded(i)
  \/ \E i \in 1..Len(exports) : WorkerLoadFails(i)
  \/ \E i \in 1..Len(exports) : WorkerSeeks(i)
  \/ \E i \in 1..Len(exports) : WorkerSeeked(i)
  \/ \E i \in 1..Len(exports) : WorkerSeekTimeout(i)
  \/ \E i \in 1..Len(exports), how \in {"reached", "halted"} : WorkerPlayed(i, how)
  \/ \E i \in 1..Len(exports) : WorkerThrows(i)
  \/ \E i \in 1..Len(exports), size \in ChunkSizes : DataAvailable(i, size)
  \/ \E i \in 1..Len(exports) : RecorderStops(i)
  \/ \E i \in 1..Len(exports) : ExportSettles(i)
  \/ \E i \in 1..Len(exports) : DownloadAllNext(i)

SpecWorker == InitWorker /\ [][NextWorker]_vars

(***************************************************************************)
(* REEL_ADD with a list of clips: a session with a library and a reel, and *)
(* batches whose clips are new or known, with or without an id, with good  *)
(* and bad times.  One command has been answered before.                   *)
(***************************************************************************)
AddClips ==
  {mkClip("a", Num(70), Num(100)), mkClip("b", Num(100), Num(150)),
   mkClip("c", Num(-10), Undef), mkClip(NoId, Num(150), Num(100))}
AddBatches == UNION {[1..n -> AddClips] : n \in 1..MaxBatch}
AddResponses ==
  {[Resp("REEL_ADD") EXCEPT !.hasClips = TRUE, !.clips = b] : b \in AddBatches}

InitReelAdd ==
  \E rl \in AuthorityReels \cup {<<>>}, d \in {NullData, ClipEditLibrary} :
    SessionWith(TRUE, d, rl, NoId, NoClipEdits, <<"welcome", "user", "ai">>)

NextReelAdd ==
  \/ handleSendMessage
  \/ \E resp \in AddResponses : OracleReturns(resp)
  \/ handleTimeUpdate

SpecReelAdd == InitReelAdd /\ [][NextReelAdd]_vars

(***************************************************************************)
(* Ingestion of analysis results: a session with or without a library in   *)
(* which an analysis returns any batch of clips, some of them starting     *)
(* within a second of a library clip or of each other.                     *)
(***************************************************************************)
IngestClips ==
  {mkClip("a", Num(0), Num(50)), mkClip("c", Num(5), Num(70)),
   mkClip("d", Num(200), Num(250)), mkClip("e", Num(205), Num(250)),
   mkClip("f", Num(110), Num(150))}
IngestBatches == UNION {[1..n -> IngestClips] : n \in 1..MaxBatch}

InitIngest ==
  \E d \in {NullData, ClipEditLibrary} :
    SessionWith(TRUE, d, <<>>, NoId, NoClipEdits, <<"welcome">>)

NextIngest ==
  \/ handleAnalyze
  \/ \E raws \in IngestBatches : AnalyzeDone(raws)
  \/ AnalyzeFail
  \/ ClickClip

SpecIngest == InitIngest /\ [][NextIngest]_vars

(***************************************************************************)
(* The reel cursor: a reel is played while entries are removed from it,    *)
(* added to it, and the reel is cleared by command or by the button.       *)
(***************************************************************************)
CursorResponses ==
  ReelRemoveResponses
    \cup {Resp("REEL_CLEAR"), WithClip("REEL_ADD", mkClip("c", Num(250), Num(300)))}

InitCursor ==
  \E rl \in AuthorityReels :
    SessionWith(TRUE, ClipEditLibrary, rl, NoId, NoClipEdits, <<"welcome">>)

NextCursor ==
  \/ handleSendMessage
  \/ \E resp \in CursorResponses : OracleReturns(resp)
  \/ ClearReelButton
  \/ playReel
  \/ MoveHead(CoarseTimes)
  \/ handleTimeUpdate
  \/ TransitionEnds

SpecCursor == InitCursor /\ [][NextCursor]_vars

(***************************************************************************)
(* Sessions one after another: a project is reset and a new file selected  *)
(* while an analysis or a copilot command of the old project may still be  *)
(* waiting for its answer.                                                 *)
(***************************************************************************)
SessionResponses ==
  {[Resp("REEL_ADD") EXCEPT !.hasClips = TRUE,
                            !.clips = <<mkClip("a", Num(100), Num(150))>>],
   [Resp("EDIT") EXCEPT !.filterStyle = "sepia(1)"],
   Resp("UNKNOWN")}

NextSessions ==
  \/ handleFileChange
  \/ reset
  \/ analyzeCalls < MaxAnalyses /\ handleAnalyze
  \/ \E raws \in AnalysisBatches : AnalyzeDone(raws)
  \/ handleSendMessage
  \/ \E resp \in SessionResponses : OracleReturns(resp)

SpecSessions == Init /\ [][NextSessions]_vars

(***************************************************************************)
(* Projects one after another: clips are added, played and edited, the     *)
(* project is reset and a file selected again, with an answer of the old   *)
(* project arriving at any time.                                           *)
(***************************************************************************)
ProjectResponses ==
  {[Resp("REEL_ADD") EXCEPT !.hasClips = TRUE,
                            !.clips = <<mkClip("a", Num(100), Num(150))>>],
   WithClip("REEL_ADD", mkClip("b", Num(0), Num(50))),
   [Resp("CLIP_EDIT") EXCEPT !.filterStyle = "sepia(1)"],
   [Resp("EDIT") EXCEPT !.filterStyle = "sepia(1)"]}

NextProjects ==
  \/ handleFileChange
  \/ reset
  \/ handleSendMessage
  \/ \E resp \in ProjectResponses : OracleReturns(resp)
  \/ ClickClip
  \/ playReel

SpecProjects == Init /\ [][NextProjects]_vars

(***************************************************************************)
(* Commands one after another: every way a command can settle, with the    *)
(* project reset and a file selected in between.                           *)
(***************************************************************************)
CommandResponses == SearchResponses \cup NoDataResponses \cup SessionResponses

NextCommands ==
  \/ handleFileChange
  \/ reset
  \/ handleSendMessage
  \/ \E resp \in CommandResponses : OracleReturns(resp)
  \/ OracleFails

SpecCommands == Init /\ [][NextCommands]_vars

(***************************************************************************)
(* The copilot call in flight: a session with a library and a reel in      *)
(* which commands are sent and answered, or fail, while clips and the reel *)
(* are played.                                                             *)
(***************************************************************************)
CopilotResponses == ModeResponses \cup ClipEditResponses

InitCopilot ==
  \E rl \in AuthorityReels :
    SessionWith(TRUE, ClipEditLibrary, rl, NoId, NoClipEdits, <<"welcome">>)

NextCopilot ==
  \/ handleSendMessage
  \/ \E resp \in CopilotResponses : OracleReturns(resp)
  \/ OracleFails
  \/ ClickClip
  \/ playReel
  \/ MoveHead(CoarseTimes)
  \/ handleTimeUpdate
  \/ TransitionEnds

SpecCopilot == InitCopilot /\ [][NextCopilot]_vars

(***************************************************************************)
(* Exported frames: a session with clip edits stored, in which a virtual   *)
(* edit with or without a filter may arrive, the reel is exported and the  *)
(* frames of the export are drawn with the worker at any position.         *)
(***************************************************************************)
\* the second entry overlaps the first; the last has no times
DrawReels ==
  {<<mkClip("a", Num(0), Num(50)), mkClip("b", Num(100), Num(150))>>,
   <<mkClip("a", Num(0), Num(100)), mkClip("b", Num(100), Num(150))>>,
   <<mkClip("b", Num(100), Num(150)), mkClip("a", Undef, Undef)>>}

DrawResponses ==
  {[Resp("EDIT") EXCEPT !.filterStyle = f] : f \in {Absent, "", "sepia(1)"}}

InitDraw ==
  \E rl \in DrawReels, edits \in StoredClipEdits :
    SessionWith(TRUE, ClipEditLibrary, rl, NoId, edits, <<"welcome">>)

NextDraw ==
  \/ handleSendMessage
  \/ \E resp \in DrawResponses : OracleReturns(resp)
  \/ exports = <<>> /\ ExportReelButton
  \/ \E i \in 1..Len(exports) : WorkerLoaded(i)
  \/ \E i \in 1..Len(exports) : WorkerSeeks(i)
  \/ \E i \in 1..Len(exports) : WorkerSeeked(i)
  \/ \E i \in 1..Len(exports) : WorkerPlayed(i, "halted")
  \/ \E i \in 1..Len(exports), t \in TimeSamples : Draw(i, t)
  \/ \E i \in 1..Len(exports) : RecorderStops(i)
  \/ \E i \in 1..Len(exports) : ExportSettles(i)

SpecDraw == InitDraw /\ [][NextDraw]_vars

(***************************************************************************)
(* Exports that run to their end: the reel or the whole library is         *)
(* exported, one export at a time.  The timers of the metadata wait and of *)
(* the seek wait fire unless the awaited event comes first, the loop and   *)
(* the stop event of the recorder take their steps, and a worker that      *)
(* plays reaches the end of its segment, pauses or ends.  Nothing makes    *)
(* 'loadedmetadata' or 'seeked' fire.                                      *)
(***************************************************************************)
LiveReels ==
  UNION {[1..n -> {mkClip("a", Num(0), Num(50)), mkClip("c", Num(250), Num(400))}] :
           n \in 0..MaxBatch}

InitWorkerLive ==
  \E rl \in LiveReels :
    SessionWith(TRUE, WorkerLibrary, rl, NoId, NoClipEdits, <<"welcome">>)

NextWorkerLive ==
  \/ exports = <<>> /\ handleDownloadAllClips
  \/ exports = <<>> /\ ExportReelButton
  \/ \E i \in 1..Len(exports) : WorkerLoaded(i)
  \/ \E i \in 1..Len(exports) : WorkerLoadFails(i)
  \/ \E i \in 1..Len(exports) : WorkerSeeks(i)
  \/ \E i \in 1..Len(exports) : WorkerSeeked(i)
  \/ \E i \in 1..Len(exports) : WorkerSeekTimeout(i)
  \/ \E i \in 1..Len(exports), how \in {"reached", "halted"} : WorkerPlayed(i, how)
  \/ \E i \in 1..Len(exports) : WorkerThrows(i)
  \/ \E i \in 1..Len(exports) : RecorderStops(i)
  \/ \E i \in 1..Len(exports) : ExportSettles(i)
  \/ \E i \in 1..Len(exports) : DownloadAllNext(i)

WorkerFairness ==
  /\ WF_vars(\E i \in 1..Len(exports) : WorkerLoadFails(i))
  /\ WF_vars(\E i \in 1..Len(exports) : WorkerSeeks(i))
  /\ WF_vars(\E i \in 1..Len(exports) : WorkerSeekTimeout(i))
  /\ WF_vars(\E i \in 1..Len(exports), how \in {"reached", "halted"} : WorkerPlayed(i, how))
  /\ WF_vars(\E i \in 1..Len(exports) : RecorderStops(i))

SpecWorkerLive == InitWorkerLive /\ [][NextWorkerLive]_vars /\ WorkerFairness

(***************************************************************************)
(* Properties.                                                             *)
(***************************************************************************)
\* a step that resolved an answer of the intent oracle with this intent
Resolved(intent) == lastOp'.op = "resolve" /\ lastOp'.intent = intent

\* a step that ran handleTimeUpdate
Ticked == lastOp'.op = "tick"

\* C1: when the resolved SEARCH answer carries startTime -1, the library, the
\* player mode and the selected clip are as before, and the chat gains only the
\* oracle's message and the "couldn't timestamp it" notice.
C1_SentinelSearchAddsNothing ==
  [][Resolved("SEARCH") /\ lastOp'.sentinel
       => /\ analysisData' = analysisData
          /\ playerMode' = playerMode
          /\ activeClipId' = activeClipId
          /\ chatHistory' = chatHistory \o <<"ai", "warn">>]_vars

\* C2: at most one processAndDownload is in progress at any time.
C2_OneExportAtATime == Cardinality(Running) <= 1

\* C3: every clip of the library and every entry of the reel has
\* endTime > startTime >= 0.
C3_AllClipsWellFormed ==
  \A c \in Range(ClipsOf(analysisData)) \cup Range(reel) : WellFormed(c)

\* the claim's words for a start and an end that sanitizeClip replaces
C4_BadStart(x) == ~IsFinite(ToNumber(x)) \/ ToNumber(x).v < 0
C4_BadEnd(x, start) == ~IsFinite(ToNumber(x)) \/ ToNumber(x).v <= start

\* C4: whatever the record, sanitizeClip returns a finite startTime >= 0 and an
\* endTime > startTime; a non-finite or negative start becomes 0, and a missing,
\* non-finite or not-greater end becomes start + 15 s.
C4_SanitizeClipTotal ==
  lastOp.op = "sanitizeClip"
    => /\ IsFinite(sanOut.startTime) /\ IsFinite(sanOut.endTime)
       /\ sanOut.startTime.v >= 0
       /\ sanOut.endTime.v > sanOut.startTime.v
       /\ C4_BadStart(sanIn.startTime) => sanOut.startTime = Num(0)
       /\ C4_BadEnd(sanIn.endTime, sanOut.startTime.v)
            => sanOut.endTime = Num(sanOut.startTime.v + DEFAULT_CLIP_LEN)

\* a record with a negative start and no end came out as 0 .. 15 s
C4_Witness ==
  /\ lastOp.op = "sanitizeClip"
  /\ sanIn.startTime = Num(-10) /\ sanIn.endTime = Undef
  /\ sanOut.startTime = Num(0) /\ sanOut.endTime = Num(DEFAULT_CLIP_LEN)

\* C5: resolving REEL_CLEAR empties the reel, turns REEL mode into FULL, and
\* never leaves REEL mode over an empty reel.
C5_ReelClearLeavesFull ==
  [][Resolved("REEL_CLEAR")
       => /\ reel' = <<>>
          /\ playerMode = "REEL" => playerMode' = "FULL"
          /\ ~(playerMode' = "REEL" /\ reel' = <<>>)]_vars

\* C6: after playClip or playReel no virtual edit is left: virtualEdit is null.
C6_ModeSwitchClearsVirtualEdit ==
  [][lastOp'.op \in {"playClip", "playReel"} => virtualEdit' = NullEdit]_vars

\* C7: resolving REEL_ADD {all: true} leaves the library as it was and appends
\* one copy of the whole library to the reel.
C7_ReelAddAllCopiesLibrary ==
  [][Resolved("REEL_ADD") /\ lastOp'.all
       => /\ analysisData' = analysisData
          /\ reel' = reel \o ClipsOf(analysisData)]_vars

\* the virtual-edit skip logic is in charge of this tick
VirtualEditTick ==
  /\ Ticked
  /\ playerMode = "FULL"
  /\ ~virtualEdit.isNull /\ virtualEdit.isActive
  /\ Len(virtualEdit.keepSegments) > 0

\* C8: the skip logic performs only finitely many consecutive seeks.  The handler
\* is a function of the player's state, so a tick that seeks and leaves that state
\* as it found it is followed by the same seek for ever: every seeking tick has to
\* change the state.
C8_SeekingTickMakesProgress ==
  [][VirtualEditTick /\ lastSeeks' # <<>>
       => <<videoTime, videoPaused, playerMode, virtualEdit>>'
            # <<videoTime, videoPaused, playerMode, virtualEdit>>]_vars

\* the claim's words: t lies in a keep segment; the segments that start after t
C9_Inside(segs, t) ==
  \E i \in 1..Len(segs) : Le(segs[i].start, Num(t)) /\ Lt(Num(t), segs[i].end)
C9_Later(segs, t) == {i \in 1..Len(segs) : Gt(segs[i].start, Num(t))}
C9_First(segs, t) == CHOOSE i \in C9_Later(segs, t) : \A j \in C9_Later(segs, t) : i <= j

C10_EffectiveEnd(c) ==
  IF c.endTime.v > c.startTime.v THEN c.endTime.v ELSE c.startTime.v + SINGLE_FALLBACK

\* C10: in SINGLE mode for the clip c playClip was called with, a tick at or past
\* effectiveEnd(c) seeks to c.startTime, plays and stays in SINGLE; a tick before
\* effectiveEnd(c) does not seek.
C10_SingleLoopsOverPlayedClip ==
  [][Ticked /\ playerMode = "SINGLE" /\ playedClip # NoClip
       => /\ videoTime >= C10_EffectiveEnd(playedClip)
               => /\ lastSeeks' = <<playedClip.startTime.v>>
                  /\ ~videoPaused'
                  /\ playerMode' = "SINGLE"
          /\ videoTime < C10_EffectiveEnd(playedClip) => lastSeeks' = <<>>]_vars

\* effectiveEnd of a reel entry with finite times
C11_EffectiveEnd(c) ==
  IF c.endTime.v > c.startTime.v THEN c.endTime.v ELSE c.startTime.v + REEL_FALLBACK

\* C11: in REEL mode with the cursor on entry i, a tick at or past the entry's
\* effective end moves the cursor to i+1, shows the transition, seeks to the next
\* entry's start and plays, or after the last entry pauses and returns to FULL.
\* An uninterrupted playback visits every entry and then returns to FULL: once
\* the play head stands at the end of the source, where playback cannot carry it
\* any further, the tick has to move the cursor on or return to FULL.
C11_ReelPlaysEveryEntry ==
  [][Ticked /\ playerMode = "REEL" /\ reelCurrentIndex < Len(reel)
       => LET i == reelCurrentIndex
              over == videoTime >= C11_EffectiveEnd(reel[i + 1])
          IN  /\ over /\ i + 1 < Len(reel)
                   => /\ reelCurrentIndex' = i + 1
                      /\ isTransitioning'
                      /\ lastSeeks' = <<reel[i + 2].startTime.v>>
                      /\ ~videoPaused'
                      /\ playerMode' = "REEL"
              /\ over /\ i + 1 >= Len(reel)
                   => videoPaused' /\ playerMode' = "FULL"
              /\ videoTime = Duration
                   => reelCurrentIndex' = i + 1 \/ playerMode' = "FULL"]_vars

\* the reel without its entry at position k (0-based), the others in their order
C12_Without(rl, k) ==
  [j \in 1..(Len(rl) - 1) |-> IF j <= k THEN rl[j] ELSE rl[j + 1]]

\* C12: REEL_REMOVE with index k on a reel of n entries leaves the reel without
\* its last entry for k = -1 and n > 0, without the entry at position k for
\* 0 <= k < n, and unchanged for every other k; no error is raised.
C12_ReelRemove ==
  [][Resolved("REEL_REMOVE") /\ lastOp'.resp.hasData /\ IsFinite(lastOp'.resp.index)
       => LET k == lastOp'.resp.index.v
              n == Len(reel)
          IN  /\ reel' = IF k = -1 /\ n > 0 THEN C12_Without(reel, n - 1)
                         ELSE IF 0 <= k /\ k < n THEN C12_Without(reel, k)
                         ELSE reel
              /\ chatHistory' = chatHistory \o <<"ai">>]_vars

\* index 1 took the middle entry out of a reel of three
C12_Witness ==
  /\ lastOp.op = "resolve" /\ lastOp.intent = "REEL_REMOVE"
  /\ lastOp.resp.index = Num(1)
  /\ reel = <<mkClip("a", Num(0), Num(50)), mkClip("b", Num(100), Num(150))>>
  /\ chatHistory = <<"welcome", "user", "ai">>

\* C13: after an EDIT is applied, virtualEdit is the edit of the newest payload
\* alone, it is active, and its keepSegments is the payload's list, or the single
\* range from 0 to the source duration when that list is absent or empty.
C13_EditReplacesWholesale ==
  [][Resolved("EDIT") /\ lastOp'.resp.hasData
       => LET r == lastOp'.resp
          IN  virtualEdit' =
                [isNull |-> FALSE, isActive |-> TRUE,
                 keepSegments |-> IF ~r.hasKeep \/ r.keepSegments = <<>>
                                  THEN <<Seg(Num(0), Num(Duration))>>
                                  ELSE r.keepSegments,
                 filterStyle |-> r.filterStyle]]_vars

\* two values of a field that show the same: equal, or both empty
C14_Same(x, y) == x = y \/ {x, y} \subseteq {Absent, ""}

\* C14: a CLIP_EDIT gives each of filterStyle, subtitles and overlay of the
\* selected clip's ClipEdit the value the intent supplies for it, keeps the
\* previous value of a field the intent does not mention, and leaves the
\* ClipEdits of the other clips alone; with no clip selected it changes nothing.
C14_ClipEditMergesFields ==
  [][Resolved("CLIP_EDIT") /\ lastOp'.resp.hasData
       => LET r == lastOp'.resp
              id == activeClipId
              old == EditOf(clipEdits, id)
          IN  IF id = NoId THEN clipEdits' = clipEdits
              ELSE /\ DOMAIN clipEdits' = DOMAIN clipEdits \cup {id}
                   /\ \A i \in DOMAIN clipEdits \ {id} : clipEdits'[i] = clipEdits[i]
                   /\ C14_Same(clipEdits'[id].filterStyle,
                               IF r.filterStyle # Absent THEN r.filterStyle
                               ELSE old.filterStyle)
                   /\ C14_Same(clipEdits'[id].subtitles,
                               IF r.subtitles # Absent THEN r.subtitles ELSE old.subtitles)
                   /\ C14_Same(clipEdits'[id].overlay,
                               IF r.overlay # Absent THEN r.overlay ELSE old.overlay)]_vars

\* the claim's words: the clamped start and end of a clip
C15_Start(c) == IF IsFinite(c.startTime) /\ c.startTime.v >= 0 THEN c.startTime.v ELSE 0
C15_End(c) ==
  IF IsFinite(c.endTime) /\ c.endTime.v > C15_Start(c) THEN c.endTime.v
  ELSE C15_Start(c) + EXPORT_FALLBACK

\* C15: a processAndDownload run takes its clips in list order, one at a time:
\* it seeks to the clamped start of the clip, plays until the clamped end is
\* reached or the worker has paused or ended, and only then goes on to the next
\* clip; the recorder is stopped only after the last clip has been played
\* through or an exception occurred, and a file is offered only after that.
C15_ClipsInListOrder ==
  \A i \in 1..Len(exports) :
    LET x == exports[i]
        n == Len(x.clips)
    IN  /\ x.at = Len(x.played) /\ x.at <= n
        /\ Len(x.sought) \in {x.at, x.at + 1} /\ Len(x.sought) <= n
        /\ x.phase = "seek" => Len(x.sought) = x.at
        /\ x.phase = "play" => Len(x.sought) = x.at + 1
        /\ \A j \in 1..Len(x.sought) : x.sought[j] = C15_Start(x.clips[j])
        /\ \A j \in 1..Len(x.played) :
              /\ x.played[j].start = C15_Start(x.clips[j])
              /\ x.played[j].end = C15_End(x.clips[j])
              /\ x.played[j].how \in {"reached", "halted"}
        /\ x.phase \in {"stopping", "stopped"} => x.at = n \/ x.failed
        /\ x.downloaded => x.phase = "stopped"

\* a reel of the clip at 10 s and then the clip at 0 s was exported: both were
\* played, in that order, and the file was offered
C15_Witness ==
  \E i \in 1..Len(exports) :
    LET x == exports[i]
    IN  /\ x.by = "reel"
        /\ x.clips = <<mkClip("b", Num(100), Num(150)), mkClip("a", Num(0), Num(50))>>
        /\ x.sought = <<100, 0>>
        /\ Len(x.played) = 2
        /\ x.phase = "stopped" /\ ~x.failed /\ x.downloaded

\* C16: after an exception in the segment loop of a run no further segment of
\* it is processed, and the handler that awaited the run does not take it for a
\* success: handleDownloadAllClips does not count it, handleDownloadClip and
\* handleExportReel report the failure.
C16_FailedRunIsNotASuccess ==
  [][/\ \A i \in 1..Len(exports) :
          exports[i].failed => exports[i].phase \in {"stopping", "stopped"}
     /\ lastOp'.op = "exportSettles" /\ lastOp'.failed
          => IF lastOp'.by = "all" THEN ~lastOp'.counted
             ELSE lastOp'.alert = "failed"]_vars

\* C17: when the recorder of a run stops, after the last clip or after a failure
\* in the segment loop, a file is offered if and only if at least one non-empty
\* chunk was captured: every non-empty chunk delivered is captured and no empty
\* one is, the stop offers a file exactly when a chunk was captured, and no
\* other step offers one.
C17_DownloadIffChunks ==
  [][/\ lastOp'.op = "dataavailable"
          => exports'[lastOp'.run].chunks
               = exports[lastOp'.run].chunks + (IF lastOp'.size > 0 THEN 1 ELSE 0)
     /\ lastOp'.op = "onstop"
          => (lastOp'.downloaded <=> exports[lastOp'.run].chunks > 0)
     /\ lastOp'.op \notin {"onstop", "exportSettles", "downloadAllNext"}
          => /\ Len(exports') >= Len(exports)
             /\ \A i \in 1..Len(exports) : exports'[i].downloaded = exports[i].downloaded]_vars

\* the recorder of a run that failed in its segment loop stopped with a chunk
\* captured, and the file was offered
C17_Witness ==
  /\ lastOp.op = "onstop" /\ lastOp.downloaded
  /\ \E i \in 1..Len(exports) :
       /\ exports[i].failed /\ exports[i].phase = "stopped"
       /\ exports[i].chunks = 1 /\ exports[i].downloaded

\* C18: an answer with intent UNKNOWN, or with one of SEARCH, EDIT, CLIP_EDIT,
\* REEL_ADD, REEL_REMOVE and no data, is a no-op: library, reel, virtualEdit,
\* clipEdits, playerMode and activeClipId stay as they are, and the chat gains
\* the answer's message and nothing else.
C18_NoDataIsNoOp ==
  [][(/\ lastOp'.op = "resolve"
      /\ \/ lastOp'.intent = "UNKNOWN"
         \/ /\ lastOp'.intent \in {"SEARCH", "EDIT", "CLIP_EDIT", "REEL_ADD", "REEL_REMOVE"}
            /\ ~lastOp'.resp.hasData)
       => /\ UNCHANGED <<analysisData, reel, virtualEdit, clipEdits, playerMode,
                         activeClipId>>
          /\ chatHistory' = chatHistory \o <<"ai">>]_vars

\* C19: the ids of the clips in the library are pairwise distinct.
C19_LibraryIdsDistinct ==
  LET clips == ClipsOf(analysisData)
  IN  \A i, j \in 1..Len(clips) : i # j => clips[i].id # clips[j].id

\* C20: a CLIP_EDIT, with or without new times for the selected clip, leaves
\* every reel entry as it was appended, the entries added from that clip too.
C20_ReelEntriesAreSnapshots ==
  [][Resolved("CLIP_EDIT") => reel' = reel]_vars

\* clip a, selected, was moved to 2 s .. 4 s in the library; the reel's entry
\* added from it still runs from 0 s to 5 s
C20_Witness ==
  /\ lastOp.op = "resolve" /\ lastOp.intent = "CLIP_EDIT"
  /\ lastOp.resp.startTime = Num(20) /\ lastOp.resp.endTime = Num(40)
  /\ analysisData.clips[1] = mkClip("a", Num(20), Num(40))
  /\ Len(reel) > 0 /\ reel[1] = mkClip("a", Num(0), Num(50))

\* C21: a tick issues at most one seek, and the mode alone decides whose it is:
\* in SINGLE the loop back to the start of the selected clip, at or past its end;
\* in REEL the advance to the start of the next entry, with the cursor moved on;
\* in FULL the skip of an active virtual edit, from outside its keep segments to
\* a later segment or to the end of the source.
C21_OneAuthorityPerMode ==
  [][Ticked
       => /\ Len(lastSeeks') <= 1
          /\ lastSeeks' # <<>>
               => LET cs == ClipsOf(analysisData)
                      at == FindClip(cs, activeClipId)
                      segs == virtualEdit.keepSegments
                  IN  /\ playerMode = "SINGLE"
                           => /\ at # 0
                              /\ videoTime >= SingleSafeEnd(cs[at])
                              /\ lastSeeks' = <<TickStart(cs[at])>>
                      /\ playerMode = "REEL"
                           => /\ reelCurrentIndex' = reelCurrentIndex + 1
                              /\ videoTime >= ReelSafeEnd(reel[reelCurrentIndex + 1])
                              /\ lastSeeks' = <<SafeStart(reel[reelCurrentIndex + 2])>>
                      /\ playerMode = "FULL"
                           => /\ ~virtualEdit.isNull /\ virtualEdit.isActive
                              /\ ~InValidSegment(segs, videoTime)
                              /\ \/ lastSeeks' = <<Duration>>
                                 \/ \E i \in 1..Len(segs) :
                                      lastSeeks' = <<SafeNextStart(segs[i], videoTime)>>]_vars

\* in SINGLE mode on clip a, with an active virtual edit that keeps 10 s .. 15 s
\* only, a tick past the end of the clip has looped back to 0 s
C21_Witness ==
  /\ lastOp.op = "tick"
  /\ playerMode = "SINGLE" /\ activeClipId = "a"
  /\ ~virtualEdit.isNull /\ virtualEdit.isActive
  /\ virtualEdit.keepSegments = <<Seg(Num(100), Num(150))>>
  /\ lastSeeks = <<0>> /\ videoTime = 0

C23_SeekTargetsNotNegative ==
  /\ lastOp.op \in {"playClip", "playReel", "tick", "resolve"}
       => \A i \in 1..Len(lastSeeks) : lastSeeks[i] >= 0
  /\ \A i \in 1..Len(exports) :
       \A j \in 1..Len(exports[i].sought) : exports[i].sought[j] >= 0

\* the runs that have not settled: the promise is pending, or the recorder has
\* been started and has not stopped
C24_Unsettled ==
  {i \in 1..Len(exports) :
     exports[i].promise = "pending" \/ exports[i].phase \notin {"stopped", "rejected"}}

C25_Runs ==
  \A i \in 1..Len(exports) :
    LET x == exports[i]
    IN  /\ x.promise = "rejected"
             => /\ x.recorder = "none" /\ x.chunks = 0
                /\ ~x.downloaded
                /\ ~x.attached
        /\ x.failed /\ x.promise # "pending"
             => x.recorder = "inactive" /\ ~x.attached

\* C25: a run that fails before its recorder is started (no canvas context, no
\* metadata) is rejected with nothing recorded or downloaded and its worker
\* video removed from the page, and library, reel, virtualEdit and clipEdits
\* are as before; a run that fails in its segment loop has its recorder stopped
\* and its worker video removed when it settles.
C25_FailedRunCleansUp ==
  [][/\ C25_Runs'
     /\ lastOp'.op \in {"workerLoadFails", "workerThrows"}
          => UNCHANGED <<analysisData, reel, virtualEdit, clipEdits>>]_vars

\* the download of a clip failed before its recorder was started
C25_Witness ==
  /\ lastOp.op = "workerLoadFails"
  /\ \E i \in 1..Len(exports) :
       /\ exports[i].by = "clip" /\ exports[i].promise = "rejected"
       /\ ~exports[i].attached /\ ~exports[i].downloaded

\* the claim's words: the clips of the run whose range, with its half second
\* after the end, holds the worker's time; the frame's active clip is the first
C26_Holds(c, t) ==
  /\ Ge(Num(t), c.startTime)
  /\ Le(Num(t), Add(ToNumber(c.endTime), ACTIVE_MARGIN))
C26_Set(f) == f \notin {Absent, ""}

\* C26: an exported frame is drawn with the filterStyle of its active clip's
\* ClipEdit when the frame has an active clip and that ClipEdit has one, else
\* with the filterStyle of the virtual edit when that is set, else with none;
\* subtitles and overlays are drawn with the filter reset to none.
C26_FilterPrecedence ==
  [][lastOp'.op = "draw"
       => LET x == exports[lastOp'.run]
              t == lastOp'.time
              holding == {i \in 1..Len(x.clips) : C26_Holds(x.clips[i], t)}
              a == CHOOSE i \in holding : \A j \in holding : i <= j
              own == IF holding # {} /\ x.clips[a].id \in DOMAIN x.clipEdits
                     THEN x.clipEdits[x.clips[a].id].filterStyle ELSE Absent
          IN  /\ lastOp'.filter =
                   IF C26_Set(own) THEN own
                   ELSE IF ~x.virtualEdit.isNull /\ C26_Set(x.virtualEdit.filterStyle)
                   THEN x.virtualEdit.filterStyle
                   ELSE "none"
              /\ lastOp'.textFilter = "none"]_vars

\* with the virtual edit's sepia filter in force, a frame of clip b, whose
\* ClipEdit blurs, was drawn blurred
C26_Witness ==
  /\ lastOp.op = "draw"
  /\ lastOp.time = 100
  /\ lastOp.filter = "blur(2px)"
  /\ \E i \in 1..Len(exports) :
       /\ ~exports[i].virtualEdit.isNull
       /\ exports[i].virtualEdit.filterStyle = "sepia(1)"
       /\ exports[i].clips[1].id = "b"

\* C27: while a copilot call is outstanding the command has changed nothing in
\* the library, the reel, virtualEdit or clipEdits (the only writer is the reel
\* button, which clears virtualEdit), and a click on a clip, the reel button and
\* the playback ticks are enabled and take effect; the command's own change
\* comes with the step that resolves the call.
C27_Enabled ==
  chatCall.active
    => /\ ENABLED ClickClip
       /\ Len(reel) > 0 => ENABLED playReel
       /\ ENABLED handleTimeUpdate
C27_NothingUntilResolved ==
  /\ [](C27_Enabled)
  /\ [][/\ chatCall'.active
            => IF lastOp'.op = "playReel"
               THEN UNCHANGED <<analysisData, reel, clipEdits>>
               ELSE UNCHANGED dataVars
        /\ (chatCall.active /\ lastOp'.op = "playClip")
            => playerMode' = "SINGLE" /\ activeClipId' = playedClip'.id /\ ~videoPaused'
        /\ (chatCall.active /\ lastOp'.op = "playReel")
            => playerMode' = "REEL" /\ reelCurrentIndex' = 0 /\ ~videoPaused'
        /\ (~UNCHANGED <<analysisData, reel, clipEdits>>)
            => chatCall.active /\ ~chatCall'.active]_vars

\* a clip was clicked after the command was sent, and with the call still
\* outstanding a tick of that clip has moved the play head
C27_Witness ==
  /\ chatCall.active
  /\ chatCall.activeClipId = NoId
  /\ activeClipId # NoId
  /\ playerMode = "SINGLE"
  /\ lastOp.op = "tick"
  /\ lastSeeks # <<>>

\* C28: when the copilot call fails, one error message is appended to the chat,
\* the library, the reel, virtualEdit, clipEdits and playerMode stay as they
\* were, and the playback tick is enabled afterwards.
C28_FailureChangesNoData ==
  /\ [](lastOp.op = "oracleFail" => ENABLED handleTimeUpdate)
  /\ [][lastOp'.op = "oracleFail"
          => /\ chatHistory' = Append(chatHistory, "err")
             /\ UNCHANGED <<analysisData, reel, virtualEdit, clipEdits, playerMode>>
             /\ ~isProcessingChat']_vars

\* a call failed while the reel was playing
C28_Witness ==
  /\ lastOp.op = "oracleFail"
  /\ playerMode = "REEL"
  /\ chatHistory[Len(chatHistory)] = "err"

\* the clips of a library whose id is, or is not, among ids
C29_Known(cs, ids) == SelectSeq(cs, LAMBDA c : c.id \in ids)
C29_New(cs, ids) == SelectSeq(cs, LAMBDA c : c.id \notin ids)

\* C29: REEL_ADD with a list of clips appends every given clip to the end of the
\* reel in order, adds to the library exactly the given clips whose id the
\* library did not hold and keeps the clips it held as they were, and enters
\* SINGLE mode on the first of the clips just added to the reel: activeClipId
\* is its id and playback seeks to its start.
C29_ReelAddClips ==
  [][(/\ Resolved("REEL_ADD")
      /\ lastOp'.resp.hasData
      /\ ~lastOp'.resp.all
      /\ lastOp'.resp.hasClips)
       => LET given == processUserCommand(lastOp'.resp).clips
              old == ClipsOf(analysisData)
              now == ClipsOf(analysisData')
          IN  /\ reel' = reel \o given
              /\ C29_Known(now, IdsOf(old)) = old
              /\ C29_New(now, IdsOf(old)) = C29_New(given, IdsOf(old))
              /\ playerMode' = "SINGLE"
              /\ activeClipId' = given[1].id
              /\ playedClip' = given[1]
              /\ lastSeeks' = <<given[1].startTime.v>>
              /\ ~videoPaused']_vars

\* a batch of a known clip a with new times and a new clip c went to the end of a
\* reel that held a clip: c alone entered the library, and a is the clip played
C29_Witness ==
  /\ lastOp.op = "resolve"
  /\ lastOp.intent = "REEL_ADD"
  /\ Len(lastOp.resp.clips) = 2
  /\ Len(reel) > 2
  /\ reel[Len(reel) - 1] = mkClip("a", Num(70), Num(100))
  /\ reel[Len(reel)].id = "c"
  /\ ClipsOf(analysisData) = <<reel[Len(reel)]>> \o ClipsOf(ClipEditLibrary)
  /\ playerMode = "SINGLE"
  /\ activeClipId = "a"

\* C30: when analysis results are ingested the clips the library held stay as
\* they were and in their order, and no clip that came in is, in the library
\* after ingestion, a near-duplicate of another library clip: none has the id
\* of another clip or starts within a second of it.
C30_NoNearDuplicateIngested ==
  [][lastOp'.op = "analyzeDone"
       => LET old == ClipsOf(analysisData)
              now == ClipsOf(analysisData')
          IN  /\ Len(now) >= Len(old)
              /\ SubSeq(now, 1, Len(old)) = old
              /\ \A i \in (Len(old) + 1)..Len(now), j \in 1..Len(now) :
                   j # i => /\ now[j].id # now[i].id
                            /\ ~Near(now[j].startTime, now[i].startTime)]_vars

\* C31: whenever playerMode is REEL and the reel is not empty, the cursor
\* reelCurrentIndex points at an entry of the reel: 0 <= reelCurrentIndex <
\* len(reel), so a tick in REEL mode reads an existing entry.
C31_CursorInsideReel ==
  (playerMode = "REEL" /\ Len(reel) > 0)
    => (0 <= reelCurrentIndex /\ reelCurrentIndex < Len(reel))

\* C32: in an export of several clips, a frame captured while the segment of
\* clip i is played, with the worker inside that segment, is drawn with the
\* ClipEdit of clip i: the active clip of the frame is clip i.
C32_FrameUsesItsOwnClip ==
  [][lastOp'.op = "draw"
       => LET x == exports[lastOp'.run]
              seg == ExportSegment(WorkerClip(x))
          IN  (/\ x.phase = "play"
               /\ Len(x.clips) > 1
               /\ seg.start <= lastOp'.time
               /\ lastOp'.time <= seg.end)
                => /\ lastOp'.active # 0
                   /\ x.clips[lastOp'.active].id = WorkerClip(x).id]_vars

\* C33: an answer to a copilot command or to an analysis that was issued for an
\* earlier file (the chat of the session that receives it holds no message of
\* that command or analysis, reset and handleFileChange having replaced the
\* chat since) changes nothing in the clip library, the reel, virtualEdit,
\* clipEdits or playerMode.
C33_StaleAnswerChangesNothing ==
  [][(\/ lastOp'.op = "resolve" /\ Count("user") = 0
      \/ lastOp'.op = "analyzeDone" /\ Count("user-auto") = 0)
       => UNCHANGED <<analysisData, reel, virtualEdit, clipEdits, playerMode>>]_vars

\* a step in which a command settled
C34_Settled == lastOp'.op \in {"resolve", "oracleFail"}

\* C34: at most one copilot command is outstanding: a command is sent only
\* while none is being processed, and isProcessingChat is true exactly while
\* one is outstanding; every way a command settles (an answer applied, the
\* SEARCH answer that cannot be localized, an exception, a failed oracle call)
\* leaves isProcessingChat false, so that a further command can be sent.
C34_OneCommandAtATime ==
  /\ [](isProcessingChat <=> chatCall.active)
  /\ []((~isProcessingChat /\ file /\ Count("user") < MaxCommands)
          => ENABLED handleSendMessage)
  /\ [][/\ lastOp'.op = "handleSendMessage"
            => ~isProcessingChat /\ ~chatCall.active /\ isProcessingChat'
        /\ C34_Settled
            => chatCall.active /\ ~isProcessingChat' /\ ~chatCall'.active]_vars

\* a second command was sent, and its SEARCH answer without a timestamp has
\* taken the early return: no command is being processed
C34_Witness ==
  /\ lastOp.op = "resolve"
  /\ lastOp.intent = "SEARCH"
  /\ lastOp.sentinel
  /\ Count("user") = 2
  /\ ~isProcessingChat

\* C35: when a copilot command has settled, with an answer or with a failure
\* of the upload or of the oracle, and no analysis is uploading, appState is
\* not UPLOADING.
C35_UploadingIsCleared ==
  [][(lastOp'.op \in {"resolve", "oracleFail"} /\ analyzeCalls = 0)
       => appState' # "UPLOADING"]_vars

C37_Ordered(t) ==
  /\ \A i \in 1..Len(t) : t[i].end >= t[i].start
  /\ \A i \in 1..(Len(t) - 1) : t[i].start <= t[i + 1].start

\* C37: performSmartEdit returns a list of keep ranges that is not empty, the
\* single range 0 to 10 s when no segment has speech; for a transcript ordered
\* by start time with end >= start in every segment each range has
\* end > start >= 0, the ranges are in ascending order of start, and a range
\* begins more than 0.5 s after the range before it ends.
C37_KeepRangesWellFormed ==
  lastOp.op = "performSmartEdit"
    => /\ Len(smartOut) > 0
       /\ (\A i \in 1..Len(smartIn) : ~IsSpeech(smartIn[i]))
            => smartOut = <<[start |-> 0, end |-> SMART_FALLBACK_END]>>
       /\ C37_Ordered(smartIn)
            => /\ \A i \in 1..Len(smartOut) :
                    smartOut[i].end > smartOut[i].start /\ smartOut[i].start >= 0
               /\ \A i \in 1..(Len(smartOut) - 1) :
                    /\ smartOut[i].start < smartOut[i + 1].start
                    /\ smartOut[i + 1].start - smartOut[i].end > GAP_THRESHOLD

\* C38: uploadVideo's processing poll always terminates: the state is read
\* again at most 60 times; the call throws the timeout error when the state is
\* still PROCESSING after 60 re-polls, throws when the final state is FAILED,
\* and returns the uri only when the final state is neither PROCESSING nor
\* FAILED.
C38_Bounded ==
  /\ upload.attempts <= maxAttempts
  /\ upload.outcome = "timeout" <=> (upload.pc = "done" /\ upload.state = "PROCESSING"
                                       /\ upload.attempts = maxAttempts)
  /\ upload.outcome = "failed" <=> (upload.pc = "done" /\ upload.state = "FAILED")
  /\ upload.outcome = "returned" => (upload.pc = "done"
                                       /\ upload.state \notin {"PROCESSING", "FAILED"})
  /\ upload.pc = "done" <=> upload.outcome # "none"

C38_PollTerminates == []C38_Bounded /\ ((upload.pc = "while") ~> (upload.pc = "done"))

\* The state was PROCESSING at every one of the 60 re-polls and the call has
\* thrown the timeout error.
C38_Witness ==
  /\ lastOp.op = "pollTimesOut"
  /\ upload.outcome = "timeout"
  /\ upload.attempts = maxAttempts

====
